---- MODULE Spec2Model ----
(***************************************************************************)
(* A model of the investment-checklist scorer (tomshmueli/                 *)
(* investing_automation): the TTL cache in front of the SEC filing fetch,  *)
(* the text-evidence scoring functions, the aggregation of the segment     *)
(* scores, the filing fetch itself, the cache file, the score log and the  *)
(* spreadsheet.                                                            *)
(*                                                                         *)
(* The module holds several specifications, one per component.  Each has   *)
(* its own variables; the variables of the other components keep their     *)
(* initial value under it.                                                 *)
(*   Spec / SpecCache   get_cached_data, get_latest_10k                    *)
(*   SpecScore          _score_concentration_enhanced                      *)
(*   SpecConc           check_customer_concentration and its strategies    *)
(*   SpecClassify       NLPAnalyzer.classify_customer_type                 *)
(*   SpecDisrupt        check_industry_disruption                          *)
(*   SpecAntitrust      check_antitrust_concerns                           *)
(*   SpecRecur          calculate_recurring_revenue                        *)
(*   SpecTopDog         calculate_top_dog                                  *)
(*   SpecAggregate      run_section, calculate_total_score,                *)
(*                      _score_one_ticker                                  *)
(*   SpecDegraded       the segments that read the filing, without it      *)
(*   SpecFetch          fetch_10k_filing                                   *)
(*   SpecExtract        extract_10k_section                                *)
(*   SpecCacheFile      get_cached_data on the cache file, two processes   *)
(*   SpecLog            the log_score records of the metric functions      *)
(*   SpecExcel          the batch run and update_excel                     *)
(*   SpecSmart          NLPAnalyzer.extract_sentences_with_numbers         *)
(*   SpecMarket         check_market_loser                                 *)
(***************************************************************************)
EXTENDS Integers, Sequences, FiniteSets, TLC

VARIABLES
    now,        \* cache: datetime.now(), in days
    cache,      \* cache: the 'data' object of 10k_cache.json, key -> entry
    stored,     \* cache: per ticker spelling, the last successful fetch (history)
    call,       \* cache: what the last get_latest_10k call observed and returned
    findings,   \* scoring: all_findings, sorted by value, highest first
    scored,     \* scoring: _score_concentration_enhanced has returned
    concScore,  \* scoring: what it returned
    filing,     \* concentration: filing['text'], a sequence of sentences
    conc,       \* concentration: what check_customer_concentration did and returned
    cls,        \* classification: the last classify_customer_type call
    riskText,   \* disruption: filing['text'], a sequence of passages
    riskHeader, \* disruption: how many passages precede the risk heading, -1 if none
    disruption, \* disruption: what check_industry_disruption did and returned
    antiText,   \* antitrust: filing['text'], a sequence of paragraphs
    antitrust,  \* antitrust: the last check_antitrust_concerns call
    rrText,     \* recurring revenue: what the extractors find in filing['text']
    strongCount, \* recurring revenue: strong keywords in the business summary
    recurring,  \* recurring revenue: the last calculate_recurring_revenue call
    dogMatches, \* top dog: the counts analyze_top_dog_with_spacy reports
    topdog,     \* top dog: the last calculate_top_dog call
    engine,     \* aggregation: which loop runs, main.py or entrypoints.py
    aborted,    \* aggregation: an exception left the loop
    reports,    \* aggregation: per processed ticker, what was returned and computed
    lastOutcomes,\* aggregation: what the segment functions did for the last ticker
    runs,       \* missing filing: the run_section calls so far, in order
    allResults, \* missing filing: per finished ticker, its results by section
    fetchPc,    \* filing fetch: where fetch_10k_filing stands
    fetchCount, \* filing fetch: calls of fetch_10k_filing so far
    httpLog,    \* filing fetch: the requests and sleeps in order
    submissions,\* filing fetch: the recent forms of the index of this call
    selected,   \* filing fetch: latest_index and form_type of this call
    filingResult,\* filing fetch: what the last call returned
    secText,    \* section extraction: the filing text, piece by piece
    extracted,  \* section extraction: what extract_10k_section returned
    cacheFile,  \* cache file: what the file on disk holds
    procs,      \* cache file: per process, where its get_cached_data stands and what it holds
    scoreCalls, \* the calls of metric functions, with the log_score records each wrote
    batch,      \* the batch run: sections done and their results by ticker
    sheet,      \* the spreadsheet: the columns written, by section and ticker
    smartText,  \* sentences with numbers: the text, fragment by fragment
    smart,      \* sentences with numbers: the call and what it returned
    stockHistory,\* market performance: the closing prices of the stock
    sp500History,\* market performance: the closing prices of the S&P 500
    market      \* market performance: what check_market_loser returned

cacheVars == <<now, cache, stored, call>>
scoreVars == <<findings, scored, concScore>>
concVars == <<filing, conc>>
clsVars == <<cls>>
disruptVars == <<riskText, riskHeader, disruption>>
antitrustVars == <<antiText, antitrust>>
recurVars == <<rrText, strongCount, recurring>>
topDogVars == <<dogMatches, topdog>>
aggVars == <<engine, aborted, reports, lastOutcomes>>
degradedVars == <<runs, allResults>>
fetchVars == <<fetchPc, fetchCount, httpLog, submissions, selected, filingResult>>
extractVars == <<secText, extracted>>
cacheFileVars == <<cacheFile, procs>>
logVars == <<scoreCalls>>
excelVars == <<batch, sheet>>
smartVars == <<smartText, smart>>
marketVars == <<stockHistory, sp500History, market>>

vars == <<now, cache, stored, call, findings, scored, concScore, filing,
          conc, cls, riskText, riskHeader, disruption, antiText,
          antitrust, rrText, strongCount, recurring, dogMatches, topdog,
          engine, aborted, reports, lastOutcomes, runs, allResults,
          fetchPc, fetchCount, httpLog, submissions, selected,
          filingResult, secText, extracted, cacheFile, procs, scoreCalls,
          batch, sheet, smartText, smart, stockHistory, sp500History,
          market>>

(***************************************************************************)
(* Filing cache and retrieval                                              *)
(***************************************************************************)

\* settings.py: the TTL, in days.
CACHE_EXPIRY_DAYS == 15

\* The clock of the model advances in steps of TickDays days, at most
\* MaxTicks times.
TickDays == 5
MaxTicks == 4

\* Python's None.
None == "None"

\* An absent key of the cache's 'data' object.
NoEntry == [timestamp |-> -1, data |-> None]

\* No call made yet.
NoCall == [ticker |-> <<>>, key |-> <<>>, entry |-> "none", fetched |-> FALSE,
           data |-> None, timestamp |-> -1, at |-> -1]

\* Ticker spellings, as sequences of characters: three spellings of one
\* ticker and one other ticker.
Tickers == { <<"F", "B">>, <<"f", "b">>, <<"F", "b">>, <<"G", "E">> }

\* What fetch_10k_filing can hand back: a filing, or None on any failure.
Filings == {"filing_1", "filing_2"}
FetchResults == Filings \cup {None}

\* str.lower() on one character of the tickers' alphabet.
LowerChar(c) ==
    CASE c = "F" -> "f"
      [] c = "B" -> "b"
      [] c = "G" -> "g"
      [] c = "E" -> "e"
      [] OTHER -> c

\* str.lower().
Lower(s) == [i \in DOMAIN s |-> LowerChar(s[i])]

\* get_latest_10k with the cache key left as the caller spelled it.
CacheKeyAsSpelled(ticker) == ticker

\* get_latest_10k: the cache key is ticker.lower().
CacheKey(ticker) == Lower(ticker)

Keys == {Lower(t) : t \in Tickers} \cup Tickers

\* The freshness test with >= in place of >.
IsFreshInclusive(timestamp, t) == timestamp + CACHE_EXPIRY_DAYS >= t

\* get_cached_data: timestamp + timedelta(days=CACHE_EXPIRY_DAYS) > datetime.now().
IsFresh(timestamp, t) == timestamp + CACHE_EXPIRY_DAYS > t

\* get_cached_data(cache_file, key, fetch_function): the branch taken for the
\* key ("fresh": returned from the cache; "expired" or "absent": fetch), given
\* that the fetch function would return fetchResult.  The record is what the
\* caller observes, newCache the file after the call.
GetCachedData(key, fetchResult) ==
    LET e       == cache[key]
        present == e # NoEntry
        hit     == present /\ IsFresh(e.timestamp, now)
    IN  IF hit
        THEN [entry |-> "fresh", fetched |-> FALSE, data |-> e.data,
              timestamp |-> e.timestamp, newCache |-> cache]
        ELSE IF fetchResult # None
        THEN [entry |-> IF present THEN "expired" ELSE "absent", fetched |-> TRUE,
              data |-> fetchResult, timestamp |-> now,
              newCache |-> [cache EXCEPT ![key] =
                               [timestamp |-> now, data |-> fetchResult]]]
        ELSE [entry |-> IF present THEN "expired" ELSE "absent", fetched |-> TRUE,
              data |-> None, timestamp |-> -1, newCache |-> cache]

\* get_latest_10k(ticker): one call, the network answering fetchResult if asked.
GetLatest10k(ticker, fetchResult) ==
    LET key == CacheKey(ticker)
        r   == GetCachedData(key, fetchResult)
    IN  /\ cache' = r.newCache
        /\ call' = [ticker |-> ticker, key |-> key, entry |-> r.entry,
                    fetched |-> r.fetched, data |-> r.data,
                    timestamp |-> r.timestamp, at |-> now]
        /\ stored' = IF r.fetched /\ r.data # None
                     THEN [stored EXCEPT ![ticker] =
                              [timestamp |-> now, data |-> r.data]]
                     ELSE stored
        /\ now' = now

\* Time passes.
Tick ==
    /\ now + TickDays <= TickDays * MaxTicks
    /\ now' = now + TickDays
    /\ UNCHANGED <<cache, stored, call>>

CacheStart ==
    /\ now = 0
    /\ cache = [k \in Keys |-> NoEntry]
    /\ stored = [t \in Tickers |-> NoEntry]
    /\ call = NoCall

CacheStep ==
    \/ \E t \in Tickers, f \in FetchResults : GetLatest10k(t, f)
    \/ Tick

\* A get_latest_10k call happens in this step.
CallStep == \E t \in Tickers, f \in FetchResults : GetLatest10k(t, f)

(***************************************************************************)
(* Customer concentration: the scoring rule                                *)
(***************************************************************************)

\* The longest list of findings handed to the scoring rule.
MaxFindings == 3

\* Percentages a finding can carry (whole percents).
ScoreValues == {25, 26, 50, 51, 55, 70, 71}

\* Confidences, in hundredths: 0.9 (NLP and regex analysis findings) and 1.0.
ScoreConfidences == {90, 100}

FindingTypes == {"single", "few", "multiple"}

\* f['value'] * f['confidence'], in hundredths of a percent.
Effective(f) == f.value * f.confidence

\* sum(f['value'] * f['confidence'] for f in all_findings[:n]).
RECURSIVE SumEffective(_, _)
SumEffective(all, n) ==
    IF n = 0 \/ all = <<>> THEN 0
    ELSE Effective(Head(all)) + SumEffective(Tail(all), n - 1)

\* _score_concentration_enhanced: top_two_total.
TopTwoTotal(top, all) ==
    IF Len(all) >= 2 THEN SumEffective(all, 2) ELSE Effective(top)

\* _score_concentration_enhanced: top_three_total.
TopThreeTotal(top, all) ==
    IF Len(all) >= 3 THEN SumEffective(all, 3) ELSE TopTwoTotal(top, all)

\* The rule with the moderate single-customer rung at 40, as the function's
\* docstring words it.
ScoreConcentrationDocstring(top, all) ==
    LET eff == Effective(top)
    IN  IF top.finding_type = "single" /\ eff > 50 * 100 THEN -5
        ELSE IF top.finding_type = "few" /\ eff > 70 * 100 THEN -5
        ELSE IF top.finding_type = "single" /\ eff > 40 * 100 THEN -3
        ELSE IF top.finding_type = "few" /\ eff > 50 * 100 THEN -3
        ELSE 0

\* _score_concentration_enhanced(top_finding, all_findings).  The two totals
\* are computed and not read by the ladder.
ScoreConcentrationEnhanced(top, all) ==
    LET effective_percentage == Effective(top)
        top_two_total        == TopTwoTotal(top, all)
        top_three_total      == TopThreeTotal(top, all)
    IN  IF top.finding_type = "single" /\ effective_percentage > 50 * 100 THEN -5
        ELSE IF top.finding_type = "few" /\ effective_percentage > 70 * 100 THEN -5
        ELSE IF top.finding_type = "single" /\ effective_percentage > 25 * 100 THEN -3
        ELSE IF top.finding_type = "few" /\ effective_percentage > 50 * 100 THEN -3
        ELSE 0

\* A caller collects one more finding; the list stays sorted by value, highest
\* first, as findings.sort(key=value, reverse=True) leaves it.
AddFinding(v, c, t) ==
    /\ ~scored
    /\ Len(findings) < MaxFindings
    /\ findings # <<>> => v <= findings[Len(findings)].value
    /\ findings' = Append(findings, [value |-> v, confidence |-> c, finding_type |-> t])
    /\ UNCHANGED <<scored, concScore>>

\* The caller scores: _score_concentration_enhanced(findings[0], findings).
ScoreFindings ==
    /\ ~scored
    /\ findings # <<>>
    /\ scored' = TRUE
    /\ concScore' = ScoreConcentrationEnhanced(findings[1], findings)
    /\ findings' = findings

ScoreStart ==
    /\ findings = <<>>
    /\ scored = FALSE
    /\ concScore = 0

ScoreStep ==
    \/ \E v \in ScoreValues, c \in ScoreConfidences, t \in FindingTypes :
          AddFinding(v, c, t)
    \/ ScoreFindings

(***************************************************************************)
(* Customer concentration: sentences and the three extraction paths        *)
(*                                                                         *)
(* A filing is a sequence of sentences, one per line, each of the shape    *)
(*     "<Subject> represented <pct>% of revenue<modifier>."                *)
(* What a sentence contains is read off its parts, the way the code's      *)
(* substring tests and regular expressions read it off the text.           *)
(***************************************************************************)

\* The longest filing, in sentences.
MaxSentences == 2

\* "Our largest customer", "Our customers", "Our top customers", "One tenant".
Subjects == {"largest customer", "customers", "top customers", "one tenant"}

\* What follows "of revenue":
\*   cue     ", which could decline"
\*   geo     " from international sales"
\*   proc    " under our revenue recognition policy"
\*   dist    " through distributors"
\*   equity  " excluding stock-based compensation"
Modifiers == {"none", "cue", "geo", "proc", "dist", "equity"}

\* The modifiers that are an exclusion phrase, by family.
ExclusionModifiers == {"geo", "proc", "dist", "equity"}

\* The percentage of a sentence (whole percents).
Percentages == {4, 19, 20, 22, 25, 30, 50, 60}

\* The percentages of the sentences filings are made of.
FilingPercentages == {4, 30, 60}

Sentences == [subj : Subjects, mod : Modifiers, pct : Percentages]

\* The sentences filings are made of.
FilingSentences ==
    {s \in Sentences : s.subj # "customers" /\ s.pct \in FilingPercentages}

\* The words and phrases of the code's term lists that occur in the subject.
SubjectTerms(subj) ==
    CASE subj = "largest customer" -> {"customer", "largest customer"}
      [] subj = "customers"        -> {"customer", "customers"}
      [] subj = "top customers"    -> {"customer", "customers", "top customers"}
      [] subj = "one tenant"       -> {}

\* The same for the modifier.
ModifierTerms(mod) ==
    CASE mod = "cue" -> {"could"}
      [] mod = "geo" -> {"international", "sales"}
      [] mod = "proc" -> {"revenue"}
      [] OTHER -> {}

\* Every listed term that is a substring of the sentence ("of revenue" is part
\* of every sentence).
Terms(s) == SubjectTerms(s.subj) \cup ModifierTerms(s.mod) \cup {"revenue"}

\* check_customer_concentration: required_terms.
CustomerTerms == {"customer", "customers", "client", "clients", "account", "accounts"}
RevenueTerms == {"revenue", "revenues", "sales", "income", "receipts", "billing"}

\* classify_customer_type: exclusion_patterns, single_patterns, multiple_patterns.
NlpExclusionPatterns ==
    {"geographic", "geographical", "region", "international", "domestic",
     "industry", "sector", "market segment", "product line", "business unit",
     "channel", "distribution", "sales channel", "revenue stream",
     "service line", "division", "subsidiary", "segment"}
SinglePatterns ==
    {"customer", "client", "account", "largest customer", "major customer",
     "significant customer", "key customer", "primary customer"}
MultiplePatterns ==
    {"customers", "clients", "accounts", "top customers", "major customers",
     "largest customers", "key customers", "significant customers"}

\* _is_actual_statement: risk_patterns.
RiskPatterns ==
    {"risk", "could", "may", "might", "potential", "possible", "if", "would",
     "forward-looking", "projection", "estimate", "expect", "anticipate",
     "believe", "plan", "intend", "future", "outlook", "guidance"}

\* sum(1 for pattern in single_patterns / multiple_patterns if pattern in sentence).
SingleMatches(s) == Cardinality(Terms(s) \cap SinglePatterns)
MultipleMatches(s) == Cardinality(Terms(s) \cap MultiplePatterns)

\* A classification by the percentage bands alone, in which a percentage of
\* 50 or more is not taken for a single customer.
ClassifyByBands(s, percentage) ==
    IF Terms(s) \cap NlpExclusionPatterns # {} THEN None
    ELSE IF SingleMatches(s) > MultipleMatches(s) THEN "single"
    ELSE IF MultipleMatches(s) > 0
    THEN IF percentage >= 20 THEN "few" ELSE "multiple"
    ELSE IF percentage >= 25 THEN "few" ELSE "multiple"

\* NLPAnalyzer.classify_customer_type(sentence, percentage).
ClassifyCustomerType(s, percentage) ==
    IF Terms(s) \cap NlpExclusionPatterns # {} THEN None
    ELSE IF SingleMatches(s) > MultipleMatches(s) THEN "single"
    ELSE IF MultipleMatches(s) > 0
    THEN IF percentage >= 50 THEN "single"
         ELSE IF percentage >= 20 THEN "few"
         ELSE "multiple"
    ELSE IF percentage >= 50 THEN "single"
         ELSE IF percentage >= 25 THEN "few"
         ELSE "multiple"

\* NLPAnalyzer._is_actual_statement(sentence).
IsActualStatement(s) == Terms(s) \cap RiskPatterns = {}

\* NLPAnalyzer._is_meaningful_number(number).
IsMeaningfulNumber(n) == n > 5

\* A finding; src is the index of the sentence it was taken from (the code
\* keeps the sentence or its context).
Finding(v, c, t, i) == [value |-> v, confidence |-> c, finding_type |-> t, src |-> i]

\* What analyze_sentence_context returns for None.
NoContextFinding ==
    [found |-> FALSE, value |-> 0, finding_type |-> None, confidence |-> 0,
     is_actual |-> FALSE, src |-> 0]

\* NLPAnalyzer.analyze_sentence_context(sentence, [percentage], required_terms,
\* classifiers): a ContextFinding, or None.
AnalyzeSentenceContext(s, i) ==
    IF Terms(s) \cap CustomerTerms = {} \/ Terms(s) \cap RevenueTerms = {}
    THEN NoContextFinding
    ELSE IF ClassifyCustomerType(s, s.pct) = None THEN NoContextFinding
    ELSE [found |-> TRUE,
          value |-> s.pct,
          finding_type |-> ClassifyCustomerType(s, s.pct),
          confidence |-> IF IsActualStatement(s) THEN 90 ELSE 70,
          is_actual |-> IsActualStatement(s),
          src |-> i]

\* The indices 1..n, in order.
Indices(n) == [i \in 1..n |-> i]

\* a.sort(key=lambda x: x['value'], reverse=True): stable, highest first.
RECURSIVE InsertByValue(_, _)
InsertByValue(sorted, f) ==
    IF sorted = <<>> THEN <<f>>
    ELSE IF Head(sorted).value >= f.value
    THEN <<Head(sorted)>> \o InsertByValue(Tail(sorted), f)
    ELSE <<f>> \o sorted

RECURSIVE SortByValue(_)
SortByValue(fs) ==
    IF fs = <<>> THEN <<>>
    ELSE InsertByValue(SortByValue(SubSeq(fs, 1, Len(fs) - 1)), fs[Len(fs)])

\* extract_sentences_with_numbers: the sentences with a percentage that
\* _is_meaningful_number keeps (every sentence of the model is longer than 20
\* characters and holds one percentage).
SentencesWithNumbers(text) ==
    SelectSeq(Indices(Len(text)), LAMBDA i : IsMeaningfulNumber(text[i].pct))

\* _check_concentration_nlp_enhanced: the findings kept, in sentence order.
NlpFindings(text) ==
    LET kept == SelectSeq(SentencesWithNumbers(text),
                    LAMBDA i : /\ AnalyzeSentenceContext(text[i], i).found
                               /\ AnalyzeSentenceContext(text[i], i).is_actual)
    IN  [k \in 1..Len(kept) |->
            LET f == AnalyzeSentenceContext(text[kept[k]], kept[k])
            IN  Finding(f.value, f.confidence, f.finding_type, f.src)]

\* _check_concentration_enhanced_patterns: of the three enhanced_patterns only
\* the third, (largest|biggest) (customer|client) ... represented ... NN% ...
\* revenue, matches a sentence of the model.
MatchesEnhancedPattern(s) == s.subj = "largest customer"

\* What (\d{1,2}) captures behind the greedy [^.]{0,50}: the gap takes the
\* first digit of a two-digit percentage, the group keeps the last.
EnhancedCapture(pct) == pct % 10

\* _check_concentration_enhanced_patterns: the findings, in match order.
EnhancedPatternFindings(text) ==
    LET hits == SelectSeq(Indices(Len(text)),
                    LAMBDA i : MatchesEnhancedPattern(text[i]))
    IN  [k \in 1..Len(hits) |->
            Finding(EnhancedCapture(text[hits[k]].pct), 95, "single", hits[k])]

\* _check_concentration_enhanced_patterns(ticker, filing_text).
CheckConcentrationEnhancedPatterns(text) ==
    LET fs == SortByValue(EnhancedPatternFindings(text))
    IN  IF fs = <<>>
        THEN [score |-> 0, findings |-> <<>>]
        ELSE [score |-> ScoreConcentrationEnhanced(fs[1], fs), findings |-> fs]

\* The strong_concentration_patterns (by position in the list) that match a
\* sentence of the model.
StrongPatternIds == <<1, 2, 3, 4, 5, 16, 17>>

\* Whether a strong pattern matches the sentence and, from the words of the
\* matched text ('largest', 'single', 'one', 'a customer'), the type given:
\*   1  (largest|...) (customer|...) (accounted for|represented) NN%
\*   2  (one|single|a) (customer|client|tenant) (accounted for|represented) NN%
\*   3  (customer|client|tenant) (accounted for|represented) NN%
\*   4  (customer|client|tenant)...represented NN%...(revenue|sales|rent)
\*   5  represented NN%...(revenue|sales|rent)
\*   16 (tenant|lessee)...represented NN%
\*   17 (tenants?|lessees?)...(accounted for|represented) NN%
StrongMatchType(p, s) ==
    CASE p = 1 /\ s.subj = "largest customer" -> "single"
      [] p = 2 /\ s.subj = "one tenant" -> "single"
      [] p = 3 /\ s.subj \in {"largest customer", "one tenant"} -> "multiple"
      [] p \in {4, 5} -> "multiple"
      [] p \in {16, 17} /\ s.subj = "one tenant" -> "multiple"
      [] OTHER -> None

\* _check_concentration_enhanced_analysis: the four exclusion lists, each a
\* regular expression search in the context.
GeographicExclusion(s) == s.mod = "geo"
ProceduralExclusion(s) == s.mod = "proc"
DistributionExclusion(s) == s.mod = "dist"
EquityExclusion(s) == s.mod = "equity"

\* The context of a match is the text 300 characters to either side: for the
\* short filings of the model, the whole text.
IsExcluded(text) ==
    \E j \in 1..Len(text) :
        \/ GeographicExclusion(text[j])
        \/ ProceduralExclusion(text[j])
        \/ DistributionExclusion(text[j])
        \/ EquityExclusion(text[j])

\* _check_concentration_enhanced_analysis: the findings, pattern by pattern and
\* within a pattern match by match.
AnalysisFindings(text) ==
    LET n     == Len(text)
        np    == Len(StrongPatternIds)
        pat(k) == StrongPatternIds[((k - 1) \div n) + 1]
        idx(k) == ((k - 1) % n) + 1
        hits  == SelectSeq(Indices(np * n),
                    LAMBDA k : /\ StrongMatchType(pat(k), text[idx(k)]) # None
                               /\ ~IsExcluded(text)
                               /\ text[idx(k)].pct > 5)
    IN  [h \in 1..Len(hits) |->
            Finding(text[idx(hits[h])].pct, 90,
                    StrongMatchType(pat(hits[h]), text[idx(hits[h])]),
                    idx(hits[h]))]

\* _check_concentration_enhanced_analysis(ticker, filing_text, ...).
CheckConcentrationEnhancedAnalysis(text) ==
    LET fs == SortByValue(AnalysisFindings(text))
    IN  IF fs = <<>>
        THEN [score |-> 0, findings |-> <<>>, stages |-> <<"analysis">>]
        ELSE [score |-> ScoreConcentrationEnhanced(fs[1], fs), findings |-> fs,
              stages |-> <<"analysis">>]

\* _check_concentration_nlp_enhanced(ticker, filing_text, ...): with no finding
\* kept it hands over to the enhanced patterns, whose result is final.
CheckConcentrationNlpEnhanced(text) ==
    LET fs == SortByValue(NlpFindings(text))
    IN  IF fs = <<>>
        THEN [score |-> CheckConcentrationEnhancedPatterns(text).score,
              findings |-> CheckConcentrationEnhancedPatterns(text).findings,
              stages |-> <<"nlp", "patterns">>]
        ELSE [score |-> ScoreConcentrationEnhanced(fs[1], fs), findings |-> fs,
              stages |-> <<"nlp">>]

\* Before any call.
NoConc == [returned |-> "nothing", score |-> 0, findings |-> <<>>,
           stages |-> <<>>, nlp |-> FALSE]

\* The filing text gains a sentence.
AddSentence(s) ==
    /\ conc = NoConc
    /\ Len(filing) < MaxSentences
    /\ filing' = Append(filing, s)
    /\ conc' = conc

\* check_customer_concentration(ticker): fetched says whether get_latest_10k
\* handed back the filing, nlp is is_nlp_available().
CheckCustomerConcentration(fetched, nlp) ==
    /\ conc = NoConc
    /\ filing' = filing
    /\ conc' =
          IF ~fetched
          THEN [returned |-> "None", score |-> 0, findings |-> <<>>,
                stages |-> <<>>, nlp |-> nlp]
          ELSE LET r == IF nlp THEN CheckConcentrationNlpEnhanced(filing)
                               ELSE CheckConcentrationEnhancedAnalysis(filing)
               IN  [returned |-> "score", score |-> r.score, findings |-> r.findings,
                    stages |-> r.stages, nlp |-> nlp]

ConcStart ==
    /\ filing = <<>>
    /\ conc = NoConc

ConcStep ==
    \/ \E s \in FilingSentences : AddSentence(s)
    \/ \E fetched \in BOOLEAN, nlp \in BOOLEAN : CheckCustomerConcentration(fetched, nlp)

\* Before any call.
NoCls == [called |-> FALSE, sentence |-> [subj |-> "", mod |-> "", pct |-> 0],
          type |-> None]

\* One call classify_customer_type(sentence, percentage).
CallClassify(s) ==
    /\ cls' = [called |-> TRUE, sentence |-> s, type |-> ClassifyCustomerType(s, s.pct)]

ClsStart == cls = NoCls

ClsStep == \E s \in Sentences : CallClassify(s)

(***************************************************************************)
(* Industry disruption                                                     *)
(*                                                                         *)
(* The filing is a sequence of passages.  A passage holds one occurrence   *)
(* of a disruption pattern and the indicator words that stand within 200   *)
(* characters of it; passages lie more than 200 characters apart, so the   *)
(* context window of a match sees the words of its own passage only.       *)
(***************************************************************************)

MaxPassages == 2

\* Two entries of disruption_indicators: competitive_threats[0],
\* (new|emerging) (competitors|entrants), and market_shifts[0],
\* (declining|decreasing|reduced|falling) (demand|revenue|market|growth).
DisruptionPatterns == {"new competitors", "declining demand"}

\* The context_reqs of a pattern.
ContextReqs(pattern) ==
    IF pattern = "new competitors"
    THEN {"could", "may", "threaten", "impact", "disrupt"}
    ELSE {"could", "may", "impact", "affect", "result in"}

\* The materiality_indicators of a pattern (the same list for both).
MaterialityIndicators(pattern) ==
    {"material", "significant", "substantial", "major", "critical"}

UrgencyWords == {"critical", "existential", "threaten", "survival"}

\* The indicator words a passage of the filing may carry.
PassageWords == {"could", "threaten", "material", "critical"}

Passages == [pattern : DisruptionPatterns, words : SUBSET PassageWords]

\* risk_section_text: from the first risk-section heading to the end of the
\* filing (no later 'item N' heading, less than 20000 characters), or the
\* whole filing when it has no such heading.  The passages it holds.
RiskSection(text, header) ==
    IF header = -1 THEN DOMAIN text
    ELSE {i \in DOMAIN text : i > header}

\* list(re.finditer(pattern, risk_section_text))
PatternMatches(text, header, pattern) ==
    {i \in RiskSection(text, header) : text[i].pattern = pattern}

HasContext(p) == p.words \cap ContextReqs(p.pattern) # {}
HasMateriality(p) == p.words \cap MaterialityIndicators(p.pattern) # {}
HasUrgency(p) == p.words \cap UrgencyWords # {}

\* The tag of a match as the spec words it: materiality language alone
\* decides between the severe tags and 'minor'.
RiskTagByMateriality(p, matches) ==
    IF HasMateriality(p)
    THEN IF Cardinality(matches) > 1 \/ HasUrgency(p)
         THEN "critical" ELSE "significant"
    ELSE IF HasContext(p) THEN "minor" ELSE "none"

\* The list of identified_risks a match is appended to; matches are all the
\* matches of its pattern.
RiskTag(p, matches) ==
    IF HasContext(p) /\ HasMateriality(p)
    THEN IF Cardinality(matches) > 1 \/ HasUrgency(p)
         THEN "critical" ELSE "significant"
    ELSE IF HasContext(p) \/ HasMateriality(p) THEN "minor" ELSE "none"

\* For every passage of the filing its tag; "outside" for a passage that
\* lies before the risk section.
IdentifiedRisks(text, header) ==
    [i \in DOMAIN text |->
        IF i \in RiskSection(text, header)
        THEN RiskTag(text[i], PatternMatches(text, header, text[i].pattern))
        ELSE "outside"]

Tagged(tags, tag) == {i \in DOMAIN tags : tags[i] = tag}

\* final_score
DisruptionScore(tags) ==
    IF Tagged(tags, "critical") # {} \/ Cardinality(Tagged(tags, "significant")) >= 2
    THEN -5
    ELSE IF Tagged(tags, "significant") # {} THEN -3
    ELSE IF Tagged(tags, "minor") # {} THEN -1
    ELSE 0

NoDisruption == [returned |-> "nothing", score |-> 0, tags |-> <<>>]

\* The filing text gains a passage.
AddPassage(p) ==
    /\ disruption = NoDisruption
    /\ Len(riskText) < MaxPassages
    /\ riskText' = Append(riskText, p)
    /\ UNCHANGED <<riskHeader, disruption>>

\* The filing text gains its first risk-section heading ('risk factors').
AddRiskHeader ==
    /\ disruption = NoDisruption
    /\ riskHeader = -1
    /\ riskHeader' = Len(riskText)
    /\ UNCHANGED <<riskText, disruption>>

\* check_industry_disruption(ticker): fetched says whether get_latest_10k
\* handed back the filing.
CheckIndustryDisruption(fetched) ==
    /\ disruption = NoDisruption
    /\ UNCHANGED <<riskText, riskHeader>>
    /\ disruption' =
          IF ~fetched
          THEN [returned |-> "None", score |-> 0, tags |-> <<>>]
          ELSE LET tags == IdentifiedRisks(riskText, riskHeader)
               IN  [returned |-> "score", score |-> DisruptionScore(tags),
                    tags |-> tags]

DisruptStart ==
    /\ riskText = <<>>
    /\ riskHeader = -1
    /\ disruption = NoDisruption

DisruptStep ==
    \/ \E p \in Passages : AddPassage(p)
    \/ AddRiskHeader
    \/ \E fetched \in BOOLEAN : CheckIndustryDisruption(fetched)

(***************************************************************************)
(* Antitrust concerns                                                      *)
(*                                                                         *)
(* The filing is a sequence of paragraphs separated by blank lines.  A     *)
(* paragraph is a set of lower-case phrases, each a sentence of its own,   *)
(* after an optional opening sentence of 102 characters that holds none of *)
(* the words the check looks for.  No paragraph holds 'risk factor'.       *)
(***************************************************************************)

MaxParagraphs == 2
MaxPhrases == 2

AntitrustPhrases ==
    {"legal proceedings", "antitrust complaint", "antitrust litigation",
     "not material", "monopolization lawsuit"}

Paragraphs ==
    [phrases : {ph \in SUBSET AntitrustPhrases :
                    Cardinality(ph) >= 1 /\ Cardinality(ph) <= MaxPhrases},
     long    : BOOLEAN]

AntitrustTickers == {"XYZ", "META"}

\* ticker.lower()
LowerTicker(ticker) == IF ticker = "META" THEN "meta" ELSE "xyz"

\* The tickers with a company_keywords entry.
OverrideTickers == {"teva", "googl", "goog", "meta", "fb", "amzn", "aapl", "msft"}

\* company_keywords, after 'fb' is read as 'meta' and 'goog' as 'googl'.
CompanyKeywords(tickerLower) ==
    IF tickerLower \in {"meta", "fb", "amzn"}
    THEN {"antitrust", "competition", "anti-competitive", "ftc", "federal trade commission"}
    ELSE IF tickerLower = "teva"
    THEN {"antitrust", "competition", "anti-competitive", "litigation", "ftc", "department of justice"}
    ELSE IF tickerLower \in {"googl", "goog"}
    THEN {"antitrust", "competition", "anti-competitive", "doj", "department of justice", "ec", "european commission"}
    ELSE IF tickerLower = "aapl"
    THEN {"antitrust", "competition", "anti-competitive", "app store", "commission"}
    ELSE {"antitrust", "competition", "anti-competitive", "acquisition"}

InvestigationContext ==
    {"investigation", "litigation", "lawsuit", "complaint", "settlement", "proceeding",
     "action", "enforcement", "regulatory", "alleged", "allegation"}

SectionMarkers ==
    {"legal proceedings", "litigation", "antitrust", "government investigations",
     "regulatory proceedings", "competition law", "item 3. legal proceedings"}

\* The keywords, context words and section markers that are substrings of a
\* phrase of the filing.
PhraseTerms(phrase) ==
    IF phrase = "legal proceedings" THEN {"legal proceedings", "proceeding"}
    ELSE IF phrase = "antitrust complaint" THEN {"antitrust", "complaint"}
    ELSE IF phrase = "antitrust litigation" THEN {"antitrust", "litigation"}
    ELSE IF phrase = "monopolization lawsuit" THEN {"lawsuit"}
    ELSE {}

\* re.search(pattern, phrase) for some pattern of ANTITRUST_PATTERNS:
\* antitrust.{0,50}(...|litigation|...|complaint|...), antitrust\s+litigation,
\* monopol.{0,50}(...|lawsuit|...).
MatchesAntitrustPattern(phrase) ==
    phrase \in {"antitrust complaint", "antitrust litigation", "monopolization lawsuit"}

\* re.search(pattern, phrase) for some pattern of ANTITRUST_NEGATIVE_PATTERNS:
\* not\s+material.
MatchesNegativePattern(phrase) == phrase = "not material"

\* "antitrust litigation" in text or "antitrust settlement" in text
IsDirectPhrase(phrase) == phrase = "antitrust litigation"

\* len() of a phrase with its full stop, and of the opening sentence.
PhraseLength(phrase) ==
    IF phrase = "legal proceedings" THEN 45
    ELSE IF phrase = "antitrust complaint" THEN 33
    ELSE IF phrase = "antitrust litigation" THEN 32
    ELSE IF phrase = "not material" THEN 27
    ELSE 35

OpeningLength == 102

RECURSIVE SumLengths(_)
SumLengths(phrases) ==
    IF phrases = {} THEN 0
    ELSE LET ph == CHOOSE x \in phrases : TRUE
         IN  PhraseLength(ph) + 1 + SumLengths(phrases \ {ph})

\* len() of a paragraph: its sentences joined by single spaces.
ParagraphLength(par) ==
    SumLengths(par.phrases) - 1 + (IF par.long THEN OpeningLength + 1 ELSE 0)

RECURSIVE TextLength(_)
TextLength(pars) ==
    IF pars = <<>> THEN 0
    ELSE ParagraphLength(Head(pars)) + (IF Len(pars) > 1 THEN 1 ELSE 0)
         + TextLength(Tail(pars))

\* filing_text after re.sub(r'\s+', ' ', ...): the blank lines between the
\* paragraphs are single spaces now.  What is left of the paragraph
\* structure is one block of text: its phrases and its length.
NormalizeWhitespace(text) ==
    [phrases |-> UNION {text[i].phrases : i \in DOMAIN text},
     length  |-> TextLength(text)]

\* re.split(r'\n\s*\n', filing_text) and
\* re.split(r'\n\s*\n|\.\s+(?=[A-Z])', filing_text) on the normalised,
\* lower-case text: neither a line break nor a capital is left to split at.
SplitParagraphs(block) == <<block>>

BlockTerms(block) == UNION {PhraseTerms(ph) : ph \in block.phrases}

\* The company-specific search: some keyword stands in a paragraph of at
\* least 100 characters that also holds an investigation context word.
KeywordOverrideHit(tickerLower, block) ==
    /\ tickerLower \in OverrideTickers
    /\ \E keyword \in CompanyKeywords(tickerLower) :
          /\ keyword \in BlockTerms(block)
          /\ \E i \in DOMAIN SplitParagraphs(block) :
                LET paragraph == SplitParagraphs(block)[i]
                IN  /\ paragraph.length >= 100
                    /\ keyword \in BlockTerms(paragraph)
                    /\ BlockTerms(paragraph) \cap InvestigationContext # {}

\* relevant_sections
RelevantSections(block) ==
    {i \in DOMAIN SplitParagraphs(block) :
        BlockTerms(SplitParagraphs(block)[i]) \cap SectionMarkers # {}}

\* found_issues is not empty: the direct phrase stands anywhere in the
\* filing, or a relevant section of 50 characters or more matches no
\* negative pattern and matches an antitrust pattern.
FoundIssues(block) ==
    \/ \E ph \in block.phrases : IsDirectPhrase(ph)
    \/ \E i \in RelevantSections(block) :
          LET section == SplitParagraphs(block)[i]
          IN  /\ section.length >= 50
              /\ ~\E ph \in section.phrases : MatchesNegativePattern(ph)
              /\ \E ph \in section.phrases : MatchesAntitrustPattern(ph)

AntitrustScore(ticker, text) ==
    LET block == NormalizeWhitespace(text)
    IN  IF KeywordOverrideHit(LowerTicker(ticker), block) THEN -3
        ELSE IF FoundIssues(block) THEN -3
        ELSE 0

NoAntitrust == [called |-> FALSE, fetched |-> FALSE, ticker |-> "", score |-> 0]

\* The filing text gains a paragraph.
AddParagraph(par) ==
    /\ ~antitrust.called
    /\ Len(antiText) < MaxParagraphs
    /\ antiText' = Append(antiText, par)
    /\ antitrust' = antitrust

\* check_antitrust_concerns(ticker): fetched says whether get_latest_10k
\* handed back the filing; without it the answer is 0.
CheckAntitrustConcerns(ticker, fetched) ==
    /\ ~antitrust.called
    /\ antiText' = antiText
    /\ antitrust' = [called |-> TRUE, fetched |-> fetched, ticker |-> ticker,
                     score |-> IF fetched THEN AntitrustScore(ticker, antiText) ELSE 0]

AntitrustStart ==
    /\ antiText = <<>>
    /\ antitrust = NoAntitrust

AntitrustStep ==
    \/ \E par \in Paragraphs : AddParagraph(par)
    \/ \E ticker \in AntitrustTickers, fetched \in BOOLEAN :
          CheckAntitrustConcerns(ticker, fetched)

(***************************************************************************)
(* Recurring revenue                                                       *)
(*                                                                         *)
(* The filing text is taken by what the four extractors find in it: the    *)
(* explicit percentages (whole percents), the subscription line of the     *)
(* financial statements, the subscription indicators and the consumption   *)
(* indicators.  The business summary is taken by its count of strong       *)
(* keywords.                                                               *)
(***************************************************************************)

MaxExplicit == 2
MaxConsumption == 2
MaxStrong == 3

\* extract_recurring_revenue_percentage keeps a percentage p with 1 <= p <= 100.
ExplicitPercentages == {4, 19, 20, 59, 62, 80}

\* The subscription patterns read up to three digits before the % sign.
FinancialPercentages == {0, 4, 39, 40, 150}

\* extract_revenue_breakdown_from_financials: {} when no statement section or
\* no line item is found; a dict without 'subscription_percentage' when only
\* amounts or service lines are found.
NoBreakdown == [found |-> FALSE, hasPct |-> FALSE, pct |-> 0]
Breakdowns ==
    {[found |-> TRUE, hasPct |-> FALSE, pct |-> 0]}
        \cup {[found |-> TRUE, hasPct |-> TRUE, pct |-> p] : p \in FinancialPercentages}

EmptyText == [explicit |-> <<>>, financial |-> NoBreakdown,
              subscription |-> FALSE, consumption |-> 0]

\* score_recurring_revenue_by_percentage(percentage)
ScoreRecurringRevenueByPercentage(percentage) ==
    IF percentage >= 80 THEN 5
    ELSE IF percentage >= 60 THEN 4
    ELSE IF percentage >= 40 THEN 3
    ELSE IF percentage >= 20 THEN 2
    ELSE IF percentage >= 5 THEN 1
    ELSE 0

\* Python truth value of results['recurring_revenue_percentage']: None and
\* 0.0 are both false.
Truthy(r) == r.hasPct /\ r.pct # 0

\* comprehensive_recurring_revenue_analysis(filing_text, symbol): the
\* results dict, as far as the score depends on it.
ComprehensiveRecurringRevenueAnalysis(text) ==
    LET \* Method 1: explicit percentages
        r1 == IF text.explicit # <<>>
              THEN [hasPct |-> TRUE, pct |-> text.explicit[1]]
              ELSE [hasPct |-> FALSE, pct |-> 0]
        \* Method 2: financial statements
        r2 == IF text.financial.found /\ text.financial.hasPct /\ ~Truthy(r1)
              THEN [hasPct |-> TRUE, pct |-> text.financial.pct]
              ELSE r1
        \* Methods 3 and 4: business model type
        business_model_type ==
              IF text.consumption >= 2 THEN "consumption_based"
              ELSE IF text.subscription THEN "subscription"
              ELSE "unknown"
    IN  [hasPct |-> r2.hasPct,
         recurring_revenue_percentage |-> r2.pct,
         business_model_type |-> business_model_type,
         score |-> IF Truthy(r2) THEN ScoreRecurringRevenueByPercentage(r2.pct)
                   ELSE IF business_model_type = "subscription" THEN 2
                   ELSE 0]

NoRecurring == [called |-> FALSE, fetched |-> FALSE, score |-> 0,
                hasPct |-> FALSE, recurring_revenue_percentage |-> 0,
                business_model_type |-> "unknown"]

\* The filing text gains a sentence that states a recurring-revenue
\* percentage; a percentage found again is kept once.
AddExplicitFinding(p) ==
    /\ ~recurring.called
    /\ Len(rrText.explicit) < MaxExplicit
    /\ \A i \in DOMAIN rrText.explicit : rrText.explicit[i] # p
    /\ rrText' = [rrText EXCEPT !.explicit = Append(@, p)]
    /\ UNCHANGED <<strongCount, recurring>>

\* The filing text gains its income statement with a subscription line.
AddStatementLine(b) ==
    /\ ~recurring.called
    /\ rrText.financial = NoBreakdown
    /\ rrText' = [rrText EXCEPT !.financial = b]
    /\ UNCHANGED <<strongCount, recurring>>

\* The filing text gains a subscription indicator ('subscription model', ...).
AddSubscriptionIndicator ==
    /\ ~recurring.called
    /\ ~rrText.subscription
    /\ rrText' = [rrText EXCEPT !.subscription = TRUE]
    /\ UNCHANGED <<strongCount, recurring>>

\* The filing text gains one more consumption indicator ('usage-based', ...).
AddConsumptionIndicator ==
    /\ ~recurring.called
    /\ rrText.consumption < MaxConsumption
    /\ rrText' = [rrText EXCEPT !.consumption = @ + 1]
    /\ UNCHANGED <<strongCount, recurring>>

\* The business summary gains one more strong keyword.
AddStrongKeyword ==
    /\ ~recurring.called
    /\ strongCount < MaxStrong
    /\ strongCount' = strongCount + 1
    /\ UNCHANGED <<rrText, recurring>>

\* calculate_recurring_revenue(stock, ticker): fetched says whether
\* get_latest_10k handed back the filing.
CalculateRecurringRevenue(fetched) ==
    /\ ~recurring.called
    /\ UNCHANGED <<rrText, strongCount>>
    /\ recurring' =
          IF ~fetched
          THEN [NoRecurring EXCEPT !.called = TRUE,
                                   !.score = IF strongCount >= 3 THEN 3 ELSE 0]
          ELSE LET r == ComprehensiveRecurringRevenueAnalysis(rrText)
               IN  [called |-> TRUE, fetched |-> TRUE, score |-> r.score,
                    hasPct |-> r.hasPct,
                    recurring_revenue_percentage |-> r.recurring_revenue_percentage,
                    business_model_type |-> r.business_model_type]

RecurStart ==
    /\ rrText = EmptyText
    /\ strongCount = 0
    /\ recurring = NoRecurring

RecurStep ==
    \/ \E p \in ExplicitPercentages : AddExplicitFinding(p)
    \/ \E b \in Breakdowns : AddStatementLine(b)
    \/ AddSubscriptionIndicator
    \/ AddConsumptionIndicator
    \/ AddStrongKeyword
    \/ \E fetched \in BOOLEAN : CalculateRecurringRevenue(fetched)

(***************************************************************************)
(* Top dog / first mover                                                   *)
(*                                                                         *)
(* The filing text is taken by the counts analyze_top_dog_with_spacy      *)
(* reports for it.  Scores are kept in halves: 2 stands for 1 point, 1 for *)
(* 0.5 point.                                                              *)
(***************************************************************************)

MaxEmerging == 10
MaxLeader == 3
MaxMover == 5
MaxDisruptor == 5

NoMatches == [EMERGING |-> 0, MARKET_LEADER |-> 0, FIRST_MOVER |-> 0, DISRUPTOR |-> 0]

Min(a, b) == IF a < b THEN a ELSE b

\* Rounding of a number of halves to the nearest integer, halves upwards.
RoundHalfUp(halves) == (halves + 1) \div 2

\* int(round(score)) for a score given in halves: Python rounds a half to the
\* even neighbour.
PythonRound(halves) ==
    IF halves % 2 = 0 THEN halves \div 2
    ELSE IF ((halves - 1) \div 2) % 2 = 0 THEN (halves - 1) \div 2
    ELSE (halves + 1) \div 2

\* max_possible_score
MaxPossibleScore(m) == IF m.EMERGING > 0 THEN 3 ELSE 1

\* The bonus for the presence in emerging industries, in halves.
EmergingBonus(m) ==
    IF m.EMERGING >= 10 THEN 2 ELSE IF m.EMERGING >= 5 THEN 1 ELSE 0

MarketLeaderBonus(m) ==
    IF m.MARKET_LEADER >= 3 /\ m.EMERGING > 0 THEN 2
    ELSE IF m.MARKET_LEADER >= 1 THEN 1 ELSE 0

FirstMoverBonus(m) ==
    IF m.FIRST_MOVER >= 5 THEN 2 ELSE IF m.FIRST_MOVER >= 2 THEN 1 ELSE 0

DisruptorBonus(m) ==
    IF m.DISRUPTOR >= 5 THEN 2 ELSE IF m.DISRUPTOR >= 2 THEN 1 ELSE 0

\* score, in halves, before the final rounding.
Accumulated(m) ==
    EmergingBonus(m) + MarketLeaderBonus(m) + FirstMoverBonus(m) + DisruptorBonus(m)

\* final_score
TopDogScore(m) == Min(MaxPossibleScore(m), PythonRound(Accumulated(m)))

NoTopDog == [called |-> FALSE, analysed |-> FALSE, score |-> 0]

\* The business and risk-factor sections gain one mention of a term of an
\* emerging industry.
AddEmergingMention ==
    /\ ~topdog.called
    /\ dogMatches.EMERGING < MaxEmerging
    /\ dogMatches' = [dogMatches EXCEPT !.EMERGING = @ + 1]
    /\ topdog' = topdog

AddMarketLeader ==
    /\ ~topdog.called
    /\ dogMatches.MARKET_LEADER < MaxLeader
    /\ dogMatches' = [dogMatches EXCEPT !.MARKET_LEADER = @ + 1]
    /\ topdog' = topdog

AddFirstMover ==
    /\ ~topdog.called
    /\ dogMatches.FIRST_MOVER < MaxMover
    /\ dogMatches' = [dogMatches EXCEPT !.FIRST_MOVER = @ + 1]
    /\ topdog' = topdog

AddDisruptor ==
    /\ ~topdog.called
    /\ dogMatches.DISRUPTOR < MaxDisruptor
    /\ dogMatches' = [dogMatches EXCEPT !.DISRUPTOR = @ + 1]
    /\ topdog' = topdog

\* calculate_top_dog(ticker): fetched says whether get_latest_10k handed back
\* the filing, sections whether a business or a risk-factor section was
\* extracted from it, spacy whether analyze_top_dog_with_spacy returned its
\* matches (it returns None without spaCy).
CalculateTopDog(fetched, sections, spacy) ==
    /\ ~topdog.called
    /\ dogMatches' = dogMatches
    /\ topdog' =
          IF fetched /\ sections /\ spacy
          THEN [called |-> TRUE, analysed |-> TRUE, score |-> TopDogScore(dogMatches)]
          ELSE [called |-> TRUE, analysed |-> FALSE, score |-> 0]

TopDogStart ==
    /\ dogMatches = NoMatches
    /\ topdog = NoTopDog

TopDogStep ==
    \/ AddEmergingMention
    \/ AddMarketLeader
    \/ AddFirstMover
    \/ AddDisruptor
    \/ \E fetched \in BOOLEAN, sections \in BOOLEAN, spacy \in BOOLEAN :
          CalculateTopDog(fetched, sections, spacy)

(***************************************************************************)
(* Aggregation across segments and tickers                                 *)
(*                                                                         *)
(* A sub-score is a record: a number, None, or the string "MANUAL".  The   *)
(* scores of a segment are a set of <<metric, sub-score>> pairs.  What a   *)
(* segment function does for a ticker is an outcome: it raises, returns    *)
(* None, or returns its scores.                                            *)
(***************************************************************************)

MaxTickers == 2

Sections == <<"potential", "penalties">>

Num(n) == [kind |-> "num", n |-> n]
NoneScore == [kind |-> "none", n |-> 0]
ManualScore == [kind |-> "manual", n |-> 0]

Raises == [kind |-> "raise", scores |-> {}]
ReturnsNone == [kind |-> "none", scores |-> {}]
Returns(scores) == [kind |-> "dict", scores |-> scores]

\* What fetch_and_score_potential may hand back.
PotentialOutcomes ==
    {Raises, ReturnsNone,
     Returns({<<"Top Dog Score", Num(2)>>, <<"Optionality Score", NoneScore>>}),
     Returns({<<"Top Dog Score", Num(2)>>, <<"Optionality Score", ManualScore>>}),
     Returns({<<"Top Dog Score", Num(0)>>, <<"Optionality Score", NoneScore>>})}

\* What fetch_and_score_penalties may hand back.
PenaltiesOutcomes ==
    {Raises, ReturnsNone,
     Returns({<<"Customer Concentration", Num(-3)>>, <<"Antitrust Concerns", Num(-3)>>,
              <<"Gauntlet Score", Num(-6)>>}),
     Returns({<<"Customer Concentration", NoneScore>>, <<"Antitrust Concerns", Num(-3)>>})}

SectionOutcomes == [potential : PotentialOutcomes, penalties : PenaltiesOutcomes]

\* The sum without the special handling of the penalties section.
CountedWithGauntlet(section, scores) == {e \in scores : e[2].kind # "none"}

\* The scores that enter the sum: without 'Gauntlet Score' in the penalties
\* section, without the None values everywhere.
Counted(section, scores) ==
    {e \in scores : /\ ~(section = "penalties" /\ e[1] = "Gauntlet Score")
                    /\ e[2].kind # "none"}

RECURSIVE SumScores(_)
SumScores(entries) ==
    IF entries = {} THEN 0
    ELSE LET e == CHOOSE x \in entries : TRUE
         IN  e[2].n + SumScores(entries \ {e})

\* sum(...) over numbers and a string, float("MANUAL"): both raise.
SumRaises(entries) == \E e \in entries : e[2].kind = "manual"

\* run_section where a raising function leaves no entry at all.
RunSectionOmitting(outcome) ==
    IF outcome.kind = "dict" /\ outcome.scores # {}
    THEN [present |-> TRUE, isNone |-> FALSE, scores |-> outcome.scores]
    ELSE [present |-> FALSE, isNone |-> FALSE, scores |-> {}]

\* run_section([ticker], fetch_function, section): results, as the entry of
\* the ticker.  absent: no entry (the function returned None or an empty
\* dict); an exception leaves the entry None.
RunSection(outcome) ==
    IF outcome.kind = "raise" THEN [present |-> TRUE, isNone |-> TRUE, scores |-> {}]
    ELSE IF outcome.kind = "dict" /\ outcome.scores # {}
    THEN [present |-> TRUE, isNone |-> FALSE, scores |-> outcome.scores]
    ELSE [present |-> FALSE, isNone |-> FALSE, scores |-> {}]

\* process_sections_for_ticker(ticker, sections_to_run): results_dict
ProcessSectionsForTicker(outcomes) ==
    [s \in {Sections[i] : i \in DOMAIN Sections} |-> RunSection(outcomes[s])]

\* calculate_total_score(results_dict, ticker)
CalculateTotalScore(results_dict) ==
    LET names == DOMAIN results_dict
        has(s) == results_dict[s].present /\ ~results_dict[s].isNone
        section_scores ==
            [s \in names |->
                IF has(s) THEN SumScores(Counted(s, results_dict[s].scores)) ELSE 0]
    IN  [raised |-> \E s \in names : has(s) /\ SumRaises(Counted(s, results_dict[s].scores)),
         section_scores |-> section_scores,
         total |-> section_scores["potential"] + section_scores["penalties"]]

\* _score_one_ticker(ticker, sections)
ScoreOneTickerTotals(outcomes) ==
    LET names == {Sections[i] : i \in DOMAIN Sections}
        has(s) == outcomes[s].kind = "dict" /\ outcomes[s].scores # {}
        section_totals ==
            [s \in names |->
                IF has(s) THEN SumScores(Counted(s, outcomes[s].scores)) ELSE 0]
    IN  [raised |-> \E s \in names : has(s) /\ SumRaises(Counted(s, outcomes[s].scores)),
         section_scores |-> section_totals,
         total |-> section_totals["potential"] + section_totals["penalties"]]

\* analyze_multiple_stocks, one turn of its loop: the sections of the next
\* ticker run, its total is computed and stored.  An exception out of
\* calculate_total_score ends the whole run.
AnalyzeTicker(outcomes) ==
    /\ engine \in {"none", "main"}
    /\ ~aborted
    /\ Len(reports) < MaxTickers
    /\ engine' = "main"
    /\ LET results_dict == ProcessSectionsForTicker(outcomes)
           t == CalculateTotalScore(results_dict)
       IN  IF t.raised
           THEN /\ aborted' = TRUE
                /\ reports' = reports
                /\ lastOutcomes' = outcomes
           ELSE /\ aborted' = FALSE
                /\ reports' = Append(reports,
                      [outcomes |-> outcomes, results |-> results_dict,
                       section_scores |-> t.section_scores, total |-> t.total])
                /\ lastOutcomes' = outcomes

\* score_companies, one turn of its loop: _score_one_ticker for the next
\* ticker and its row.  An exception out of _score_one_ticker ends the run.
ScoreOneTicker(outcomes) ==
    /\ engine \in {"none", "entrypoints"}
    /\ ~aborted
    /\ Len(reports) < MaxTickers
    /\ engine' = "entrypoints"
    /\ LET t == ScoreOneTickerTotals(outcomes)
       IN  IF t.raised
           THEN /\ aborted' = TRUE
                /\ reports' = reports
                /\ lastOutcomes' = outcomes
           ELSE /\ aborted' = FALSE
                /\ reports' = Append(reports,
                      [outcomes |-> outcomes,
                       section_scores |-> t.section_scores, total |-> t.total])
                /\ lastOutcomes' = outcomes

AggStart ==
    /\ engine = "none"
    /\ aborted = FALSE
    /\ reports = <<>>
    /\ lastOutcomes = [potential |-> ReturnsNone, penalties |-> ReturnsNone]

AggStep ==
    \/ \E outcomes \in SectionOutcomes : AnalyzeTicker(outcomes)
    \/ \E outcomes \in SectionOutcomes : ScoreOneTicker(outcomes)

(***************************************************************************)
(* The segments that read the filing, with and without a filing            *)
(*                                                                         *)
(* For each ticker the potential, specific-factors and penalties segments  *)
(* run in this order.  Each asks get_latest_10k for the filing; a filing   *)
(* that is handed back is blank here.  Of the scores of a segment the ones *)
(* computed from the filing text are kept.                                 *)
(***************************************************************************)

DegradedSections == <<"potential", "specific_factors", "penalties">>

\* Strong recurring-revenue keywords in the business summary.
SummaryStrongCounts == {0, 2, 3}

\* calculate_top_dog(ticker)
TopDogOf(fetched) == IF fetched THEN TopDogScore(NoMatches) ELSE 0

\* calculate_recurring_revenue(stock, ticker)
RecurringRevenueOf(fetched, strong_count) ==
    IF ~fetched
    THEN IF strong_count >= 3 THEN 3 ELSE 0
    ELSE ComprehensiveRecurringRevenueAnalysis(EmptyText).score

\* fetch_and_score_potential(ticker)
FetchAndScorePotential(fetched) ==
    Returns({<<"Top Dog Score", Num(TopDogOf(fetched))>>})

\* fetch_and_score_specific_factors(ticker)
FetchAndScoreSpecificFactors(fetched, strong_count) ==
    Returns({<<"Recurring Revenue Score", Num(RecurringRevenueOf(fetched, strong_count))>>})

\* fetch_and_score_penalties without its early return: the checks themselves
\* answer for the missing filing.
PenaltiesByTheChecks(fetched) ==
    IF ~fetched
    THEN Returns({<<"Customer Concentration", NoneScore>>,
                  <<"Industry Disruption", NoneScore>>,
                  <<"Antitrust Concerns", Num(0)>>})
    ELSE Returns({<<"Customer Concentration",
                      Num(CheckConcentrationEnhancedAnalysis(<<>>).score)>>,
                  <<"Industry Disruption", Num(DisruptionScore(IdentifiedRisks(<<>>, -1)))>>,
                  <<"Antitrust Concerns", Num(AntitrustScore("XYZ", <<>>))>>})

\* fetch_and_score_penalties(ticker): the scores start at 0 and are handed
\* back as they are when there is no filing.
FetchAndScorePenalties(fetched) ==
    IF ~fetched
    THEN Returns({<<"Customer Concentration", Num(0)>>,
                  <<"Industry Disruption", Num(0)>>,
                  <<"Antitrust Concerns", Num(0)>>})
    ELSE Returns({<<"Customer Concentration",
                      Num(CheckConcentrationEnhancedAnalysis(<<>>).score)>>,
                  <<"Industry Disruption", Num(DisruptionScore(IdentifiedRisks(<<>>, -1)))>>,
                  <<"Antitrust Concerns", Num(AntitrustScore("XYZ", <<>>))>>})

\* The section the loop of process_sections_for_ticker is at.
NextSection == DegradedSections[(Len(runs) % Len(DegradedSections)) + 1]

\* One run_section of process_sections_for_ticker.
RecordRun(fetched, strong_count, outcome) ==
    /\ Len(runs) < MaxTickers * Len(DegradedSections)
    /\ runs' = Append(runs, [section |-> NextSection, fetched |-> fetched,
                             strong_count |-> strong_count,
                             entry |-> RunSection(outcome)])

RunPotential(fetched) ==
    /\ NextSection = "potential"
    /\ RecordRun(fetched, 0, FetchAndScorePotential(fetched))
    /\ allResults' = allResults

RunSpecificFactors(fetched, strong_count) ==
    /\ NextSection = "specific_factors"
    /\ RecordRun(fetched, strong_count, FetchAndScoreSpecificFactors(fetched, strong_count))
    /\ allResults' = allResults

\* The last section of the ticker; analyze_multiple_stocks stores the
\* results of the ticker after it.
RunPenalties(fetched) ==
    /\ NextSection = "penalties"
    /\ RecordRun(fetched, 0, FetchAndScorePenalties(fetched))
    /\ allResults' = Append(allResults,
          [s \in {"potential", "specific_factors", "penalties"} |->
              LET i == CHOOSE j \in Len(runs) - 1 .. Len(runs) + 1 :
                           runs'[j].section = s
              IN  runs'[i].entry])

DegradedStart ==
    /\ runs = <<>>
    /\ allResults = <<>>

DegradedStep ==
    \/ \E fetched \in BOOLEAN : RunPotential(fetched)
    \/ \E fetched \in BOOLEAN, strong_count \in SummaryStrongCounts :
          RunSpecificFactors(fetched, strong_count)
    \/ \E fetched \in BOOLEAN : RunPenalties(fetched)

(***************************************************************************)
(* The filing fetch                                                        *)
(*                                                                         *)
(* fetch_10k_filing runs between its blocking calls: an action issues a    *)
(* request and the next action takes its response.  httpLog holds the      *)
(* requests and the sleeps in the order they happen.  The recent filings   *)
(* of the submissions index are taken by their form types, first-listed    *)
(* first; positions count from 1.                                          *)
(***************************************************************************)

MaxFetches == 2
MaxForms == 3

FormTypes == {"10-K", "20-F", "8-K"}

\* recent_filings.get('form', [])
FormLists == UNION {[1..n -> FormTypes] : n \in 0..MaxForms}

\* What requests.get does: a response with a status code, or an exception.
Responses ==
    {[raised |-> FALSE, ok |-> TRUE], [raised |-> FALSE, ok |-> FALSE],
     [raised |-> TRUE, ok |-> FALSE]}

Get(step, url) == [kind |-> "get", step |-> step, url |-> url, call |-> fetchCount]
Sleep == [kind |-> "sleep", step |-> "", url |-> "", call |-> fetchCount]

NoSelection == [found |-> FALSE, index |-> 0, form_type |-> ""]

\* The least element of a non-empty set of positions: indices[0].
First(indices) == CHOOSE i \in indices : \A j \in indices : i <= j

\* The first-listed annual filing whatever its form.
SelectFirstAnnual(forms) ==
    LET annual == {i \in DOMAIN forms : forms[i] \in {"10-K", "20-F"}}
    IN  IF annual = {} THEN NoSelection
        ELSE [found |-> TRUE, index |-> First(annual),
              form_type |-> forms[First(annual)]]

\* latest_index and form_type: the first 10-K, else the first 20-F.
SelectFiling(forms) ==
    LET ten_k_indices == {i \in DOMAIN forms : forms[i] = "10-K"}
        twenty_f_indices == {i \in DOMAIN forms : forms[i] = "20-F"}
    IN  IF ten_k_indices # {}
        THEN [found |-> TRUE, index |-> First(ten_k_indices), form_type |-> "10-K"]
        ELSE IF twenty_f_indices # {}
        THEN [found |-> TRUE, index |-> First(twenty_f_indices), form_type |-> "20-F"]
        ELSE NoSelection

NoIndex == [received |-> FALSE, forms |-> <<>>]
NoFetchResult == [done |-> FALSE, isNone |-> FALSE, form_type |-> "", index |-> 0,
                  filing_url |-> ""]

\* return None
ReturnNone ==
    /\ fetchPc' = "idle"
    /\ filingResult' = [NoFetchResult EXCEPT !.done = TRUE, !.isNone = TRUE]

\* return {'text': ..., 'filing_url': ..., 'form_type': ...}
ReturnFiling(url) ==
    /\ fetchPc' = "idle"
    /\ filingResult' = [done |-> TRUE, isNone |-> FALSE,
                       form_type |-> selected.form_type, index |-> selected.index,
                       filing_url |-> url]

\* fetch_10k_filing(ticker) is entered and requests the ticker table.
BeginFetch ==
    /\ fetchPc = "idle"
    /\ fetchCount < MaxFetches
    /\ fetchCount' = fetchCount + 1
    /\ httpLog' = Append(httpLog, [Get("cik", "company_tickers") EXCEPT !.call = fetchCount + 1])
    /\ fetchPc' = "cik"
    /\ submissions' = NoIndex
    /\ selected' = NoSelection
    /\ filingResult' = NoFetchResult

\* The ticker table arrives; known says whether it lists the ticker.
CikResponse(resp, known) ==
    /\ fetchPc = "cik"
    /\ UNCHANGED <<fetchCount, submissions, selected>>
    /\ IF resp.raised \/ ~resp.ok \/ ~known
       THEN ReturnNone /\ httpLog' = httpLog
       ELSE /\ httpLog' = httpLog \o <<Sleep, Get("submissions", "submissions")>>
            /\ fetchPc' = "submissions"
            /\ filingResult' = filingResult

\* The submissions index arrives with its recent forms.
SubmissionsResponse(resp, forms) ==
    /\ fetchPc = "submissions"
    /\ fetchCount' = fetchCount
    /\ IF resp.raised \/ ~resp.ok
       THEN ReturnNone /\ UNCHANGED <<httpLog, submissions, selected>>
       ELSE /\ submissions' = [received |-> TRUE, forms |-> forms]
            /\ selected' = SelectFiling(forms)
            /\ IF ~SelectFiling(forms).found
               THEN ReturnNone /\ httpLog' = httpLog
               ELSE /\ httpLog' = httpLog \o <<Sleep, Get("document", "primaryDocument")>>
                    /\ fetchPc' = "document"
                    /\ filingResult' = filingResult

\* The answer for the primary document arrives; a status other than 200
\* sends a request for R1.htm at once.
DocumentResponse(resp) ==
    /\ fetchPc = "document"
    /\ UNCHANGED <<fetchCount, submissions, selected>>
    /\ IF resp.raised THEN ReturnNone /\ httpLog' = httpLog
       ELSE IF resp.ok THEN ReturnFiling("primaryDocument") /\ httpLog' = httpLog
       ELSE /\ httpLog' = Append(httpLog, Get("document", "R1.htm"))
            /\ fetchPc' = "alternative"
            /\ filingResult' = filingResult

\* The answer for R1.htm arrives.
AlternativeResponse(resp) ==
    /\ fetchPc = "alternative"
    /\ UNCHANGED <<fetchCount, submissions, selected, httpLog>>
    /\ IF resp.raised \/ ~resp.ok THEN ReturnNone ELSE ReturnFiling("R1.htm")

FetchStart ==
    /\ fetchPc = "idle"
    /\ fetchCount = 0
    /\ httpLog = <<>>
    /\ submissions = NoIndex
    /\ selected = NoSelection
    /\ filingResult = NoFetchResult

FetchStep ==
    \/ BeginFetch
    \/ \E resp \in Responses, known \in BOOLEAN : CikResponse(resp, known)
    \/ \E resp \in Responses, forms \in FormLists : SubmissionsResponse(resp, forms)
    \/ \E resp \in Responses : DocumentResponse(resp)
    \/ \E resp \in Responses : AlternativeResponse(resp)

(***************************************************************************)
(* Section extraction                                                      *)
(*                                                                         *)
(* The filing text is a sequence of pieces: a piece is a heading that one  *)
(* of the patterns of the 'business' section matches, a heading that one   *)
(* of its end patterns matches, or filler that no pattern matches.  A      *)
(* position is a character offset from 0, as in Python.                    *)
(***************************************************************************)

MaxPieces == 3
SkipLength == 1000
MaxSectionLength == 150000

\* "item 1. business", "business overview": patterns 1 and 3 of 'business';
\* "item 1a. risk factors", "item 2. properties": end patterns 1 and 3;
\* filler of 500, 1000 and 150000 characters.
Pieces == {"item1business", "businessoverview", "item1a", "item2",
           "filler500", "filler1000", "filler150000"}

PieceLength(p) ==
    CASE p = "item1business" -> 16
      [] p = "businessoverview" -> 17
      [] p = "item1a" -> 21
      [] p = "item2" -> 18
      [] p = "filler500" -> 500
      [] p = "filler1000" -> 1000
      [] OTHER -> 150000

\* The section's patterns and its end patterns, in list order.
HeaderPatterns == <<"item1business", "businessoverview">>
EndPatterns == <<"item1a", "item2">>

\* The offset at which piece i of the text starts.
RECURSIVE Offset(_, _)
Offset(text, i) ==
    IF i <= 1 THEN 0 ELSE Offset(text, i - 1) + PieceLength(text[i - 1])

\* len(filing_text)
DocLength(text) == Offset(text, Len(text) + 1)

\* re.search(pattern, filing_lower[from:]): the offsets, from `from` on, at
\* which the pattern matches.
MatchOffsets(text, pattern, from) ==
    {Offset(text, i) : i \in {j \in DOMAIN text :
                                 text[j] = pattern /\ Offset(text, j) >= from}}

Least(offsets) == CHOOSE o \in offsets : \A q \in offsets : o <= q

\* The first pattern of the list, from position k on, that matches: its
\* first match, or -1 when none matches.
RECURSIVE FirstPatternMatch(_, _, _, _)
FirstPatternMatch(text, patterns, k, from) ==
    IF k > Len(patterns) THEN -1
    ELSE IF MatchOffsets(text, patterns[k], from) # {}
    THEN Least(MatchOffsets(text, patterns[k], from))
    ELSE FirstPatternMatch(text, patterns, k + 1, from)

\* `if not section_start`: None and 0 alike.
NotFound(section_start) == section_start <= 0

NoSection == [called |-> FALSE, known |-> FALSE, empty |-> TRUE, start |-> 0, end |-> 0]

\* extract_10k_section(filing_text, section_name)
Extract10kSection(text, known) ==
    LET section_start == FirstPatternMatch(text, HeaderPatterns, 1, 0)
        next_match == FirstPatternMatch(text, EndPatterns, 1, section_start + SkipLength)
        section_end == IF next_match >= 0 THEN next_match ELSE DocLength(text)
        capped == IF section_end < section_start + MaxSectionLength
                  THEN section_end ELSE section_start + MaxSectionLength
    IN  IF ~known \/ NotFound(section_start)
        THEN [NoSection EXCEPT !.called = TRUE, !.known = known]
        ELSE [called |-> TRUE, known |-> TRUE, empty |-> section_start >= capped,
              start |-> section_start, end |-> capped]

\* The filing text gains a piece.
AddPiece(p) ==
    /\ ~extracted.called
    /\ Len(secText) < MaxPieces
    /\ secText' = Append(secText, p)
    /\ extracted' = extracted

\* One call; known says whether section_name is 'business' or a name the
\* function has no patterns for.
CallExtract(known) ==
    /\ ~extracted.called
    /\ secText' = secText
    /\ extracted' = Extract10kSection(secText, known)

ExtractStart ==
    /\ secText = <<>>
    /\ extracted = NoSection

ExtractStep ==
    \/ \E p \in Pieces : AddPiece(p)
    \/ \E known \in BOOLEAN : CallExtract(known)

(***************************************************************************)
(* The cache file under several processes                                  *)
(*                                                                         *)
(* The file is missing, holds text that is no JSON, or holds an object     *)
(* whose 'data' maps keys to entries.  An entry is well-formed, or has no  *)
(* 'timestamp', or a timestamp that fromisoformat rejects, or is no object *)
(* at all.  A process runs get_cached_data in two steps, between which the *)
(* fetch function blocks: it loads the file and looks its key up, and,     *)
(* when the fetch returns, rewrites the file from what it loaded.          *)
(***************************************************************************)

MaxProcs == 2
Today == 40

FileKeys == {"aaa", "bbb"}

\* cache_key not in cache['data']
Absent == [kind |-> "absent", timestamp |-> 0, data |-> ""]

WellFormed(timestamp, data) == [kind |-> "good", timestamp |-> timestamp, data |-> data]

\* The entries a file may hold under a key: a fresh one, an expired one, and
\* the malformed ones.
FileEntries ==
    {Absent, WellFormed(Today, "old"), WellFormed(Today - CACHE_EXPIRY_DAYS, "old"),
     [kind |-> "notimestamp", timestamp |-> 0, data |-> "old"],
     [kind |-> "badtimestamp", timestamp |-> 0, data |-> "old"],
     [kind |-> "nonobject", timestamp |-> 0, data |-> ""]}

EmptyData == [k \in FileKeys |-> Absent]

FileContents ==
    {[kind |-> "invalid", data |-> EmptyData], [kind |-> "notdict", data |-> EmptyData]}
    \cup {[kind |-> "object", data |-> d] : d \in [FileKeys -> FileEntries]}

\* cached_data['timestamp'] or fromisoformat raises on the entry.
Malformed(entry) == entry.kind \in {"notimestamp", "badtimestamp", "nonobject"}

\* load_cache that lets the JSON error through to get_cached_data.
LoadCacheStrict(file) ==
    IF file.kind = "object" THEN [raised |-> FALSE, data |-> file.data]
    ELSE IF file.kind = "invalid" THEN [raised |-> TRUE, data |-> EmptyData]
    ELSE [raised |-> FALSE, data |-> EmptyData]

\* load_cache(cache_path): the 'data' of the file, empty when the file is
\* missing, is no JSON or is no object.
LoadCache(file) ==
    IF file.kind = "object" THEN [raised |-> FALSE, data |-> file.data]
    ELSE [raised |-> FALSE, data |-> EmptyData]

\* The lookup that takes a malformed entry for a miss.
LookupLenient(entry) ==
    IF entry.kind = "good" /\ IsFresh(entry.timestamp, Today) THEN "hit" ELSE "miss"

\* get_cached_data, lines 38-42: a hit, a miss, or an exception.
Lookup(entry) ==
    IF entry.kind = "absent" THEN "miss"
    ELSE IF Malformed(entry) THEN "raise"
    ELSE IF IsFresh(entry.timestamp, Today) THEN "hit"
    ELSE "miss"

\* save_cache that reads the file again and adds the entry to it.
SaveMerged(file, loaded, key, entry) ==
    [kind |-> "object",
     data |-> [LoadCache(file).data EXCEPT ![key] = entry]]

\* cache['data'][cache_key] = ...; save_cache(cache_path, cache): the file
\* becomes what was loaded, with the new entry.
SaveCache(file, loaded, key, entry) ==
    [kind |-> "object", data |-> [loaded EXCEPT ![key] = entry]]

IdleProc == [pc |-> "idle", key |-> "", file |-> "", loaded |-> EmptyData,
             fetched |-> FALSE, isNone |-> TRUE, data |-> ""]

\* Something outside the program leaves the file in some state before the
\* first call.
WriteFile(content) ==
    /\ cacheFile.kind = "missing"
    /\ \A p \in DOMAIN procs : procs[p].pc = "idle"
    /\ cacheFile' = content
    /\ procs' = procs

\* get_cached_data(cache_file, key, fetch_function) up to the call of the
\* fetch function; file notes what load_cache found on disk.
LoadAndLookup(p, key) ==
    /\ procs[p].pc = "idle"
    /\ cacheFile' = cacheFile
    /\ LET c == LoadCache(cacheFile)
           outcome == IF c.raised THEN "raise" ELSE Lookup(c.data[key])
       IN  procs' = [procs EXCEPT ![p] =
              [pc |-> IF outcome = "miss" THEN "fetch" ELSE "done",
               key |-> key, file |-> cacheFile.kind, loaded |-> c.data,
               fetched |-> FALSE, isNone |-> outcome # "hit",
               data |-> IF outcome = "hit" THEN c.data[key].data ELSE ""]]

\* The fetch function returns (ok: with data, else None) and
\* get_cached_data runs to its end.
FetchReturns(p, ok) ==
    /\ procs[p].pc = "fetch"
    /\ procs' = [procs EXCEPT ![p] =
                    [@ EXCEPT !.pc = "done", !.fetched = TRUE, !.isNone = ~ok,
                              !.data = IF ok THEN "new" ELSE ""]]
    /\ cacheFile' = IF ok
                    THEN SaveCache(cacheFile, procs[p].loaded, procs[p].key,
                                   WellFormed(Today, "new"))
                    ELSE cacheFile

CacheFileStart ==
    /\ cacheFile = [kind |-> "missing", data |-> EmptyData]
    /\ procs = [p \in 1..MaxProcs |-> IdleProc]

CacheFileStep ==
    \/ \E content \in FileContents : WriteFile(content)
    \/ \E p \in 1..MaxProcs, key \in FileKeys : LoadAndLookup(p, key)
    \/ \E p \in 1..MaxProcs, ok \in BOOLEAN : FetchReturns(p, ok)

(***************************************************************************)
(* The score log                                                           *)
(*                                                                         *)
(* log_score(ticker, section, score, max_score, reasoning) writes one      *)
(* record to the business log.  A call of a metric function is kept with   *)
(* the value it returned and the log_score records it wrote on the way.    *)
(***************************************************************************)

MaxScoreCalls == 3

\* What analyze_top_dog_with_spacy hands back in the calls of this log.
LoggedMatches ==
    {NoMatches,
     [EMERGING |-> 10, MARKET_LEADER |-> 3, FIRST_MOVER |-> 5, DISRUPTOR |-> 5],
     [EMERGING |-> 0, MARKET_LEADER |-> 1, FIRST_MOVER |-> 0, DISRUPTOR |-> 0]}

\* What the concentration analysis returns once it has the filing.
ConcentrationResults == {Num(0), Num(-3), Num(-5), NoneScore}

\* log_score: the record that is written.
LogScore(ticker, metric, score, max_score, reasoning) ==
    [ticker |-> ticker, metric |-> metric, score |-> score,
     max_score |-> max_score, reasoning |-> reasoning]

\* calculate_top_dog: the three early returns and the except branch write
\* log_data_issue and return 0; only the computed score is written with
\* log_score.
TopDogCall(ticker, fetched, sections, spacy, m) ==
    IF fetched /\ sections /\ spacy
    THEN [metric |-> "Top Dog Score", returned |-> Num(TopDogScore(m)), computed |-> TRUE,
          records |-> <<LogScore(ticker, "Top Dog Score", Num(TopDogScore(m)), 3,
                                 IF m = NoMatches THEN "No significant top dog indicators"
                                 ELSE "strengths")>>]
    ELSE [metric |-> "Top Dog Score", returned |-> Num(0), computed |-> FALSE,
          records |-> <<>>]

\* check_customer_concentration: without a filing it writes log_data_issue
\* and returns None; with one it returns what the analysis returns.  No
\* path calls log_score.
CustomerConcentrationCall(ticker, fetched, result) ==
    IF fetched
    THEN [metric |-> "Customer Concentration", returned |-> result, computed |-> TRUE,
          records |-> <<>>]
    ELSE [metric |-> "Customer Concentration", returned |-> NoneScore, computed |-> FALSE,
          records |-> <<>>]

CallTopDog(fetched, sections, spacy, m) ==
    /\ Len(scoreCalls) < MaxScoreCalls
    /\ scoreCalls' = Append(scoreCalls, TopDogCall("XYZ", fetched, sections, spacy, m))

CallCustomerConcentration(fetched, result) ==
    /\ Len(scoreCalls) < MaxScoreCalls
    /\ scoreCalls' = Append(scoreCalls, CustomerConcentrationCall("XYZ", fetched, result))

LogStart == scoreCalls = <<>>

LogStep ==
    \/ \E fetched \in BOOLEAN, sections \in BOOLEAN, spacy \in BOOLEAN, m \in LoggedMatches :
          CallTopDog(fetched, sections, spacy, m)
    \/ \E fetched \in BOOLEAN, result \in ConcentrationResults :
          CallCustomerConcentration(fetched, result)

(***************************************************************************)
(* The batch run and the spreadsheet                                       *)
(*                                                                         *)
(* The batch path of main runs every section for the whole ticker list,    *)
(* computes the totals and then writes the spreadsheet.  A ticker is named *)
(* by its position in the ticker list, 1..MaxTickers.  Of a write only the *)
(* section, the ticker and the column are kept.                            *)
(***************************************************************************)

\* enumerate(results.items(), start=4)
FirstColumn == 4

SectionNames == {Sections[i] : i \in DOMAIN Sections}

NoEntryYet == [present |-> FALSE, isNone |-> FALSE, scores |-> {}]

\* run_section(tickers, fetch_function, section): results, by ticker; the
\* entries are inserted in the order of the ticker list.
RunSectionBatch(outs) == [t \in DOMAIN outs |-> RunSection(outs[t])]

\* results.items(): the tickers that have an entry, in insertion order.
Items(results_of) ==
    SelectSeq([t \in 1..MaxTickers |-> t], LAMBDA t : results_of[t].present)

\* col_idx of the k-th item of enumerate(results.items(), start=4).
ColumnOf(results_of, k) == FirstColumn + k - 1

\* update_excel(results_dict, excel_path, sheet_name): the columns written,
\* by section and ticker; an entry that is None is skipped.
UpdateExcel(results_dict) ==
    UNION {{[section |-> s, ticker |-> Items(results_dict[s])[k],
             column |-> ColumnOf(results_dict[s], k)] :
               k \in {j \in DOMAIN Items(results_dict[s]) :
                        ~results_dict[s][Items(results_dict[s])[j]].isNone}} :
           s \in SectionNames}

\* The results_dict as calculate_total_score(results_dict, ticker) reads it.
ResultsOfTicker(results_dict, t) == [s \in SectionNames |-> results_dict[s][t]]

\* process_all_sections_batch, one turn of its loop: the next section runs
\* for every ticker.
RunNextSection(outs) ==
    /\ batch.done < Len(Sections)
    /\ sheet.state = "none"
    /\ batch' = [done |-> batch.done + 1,
                 results |-> [batch.results EXCEPT ![Sections[batch.done + 1]] =
                                  RunSectionBatch(outs)]]
    /\ sheet' = sheet

\* main after process_all_sections_batch: the totals of every ticker (an
\* exception out of calculate_total_score ends the run), then update_excel
\* when the flag is set.
FinishBatch(update_excel_flag) ==
    /\ batch.done = Len(Sections)
    /\ sheet.state = "none"
    /\ batch' = batch
    /\ sheet' =
          IF \E t \in 1..MaxTickers :
                CalculateTotalScore(ResultsOfTicker(batch.results, t)).raised
          THEN [state |-> "aborted", cells |-> {}]
          ELSE IF update_excel_flag
          THEN [state |-> "saved", cells |-> UpdateExcel(batch.results)]
          ELSE [state |-> "unchanged", cells |-> {}]

ExcelStart ==
    /\ batch = [done |-> 0,
                results |-> [s \in SectionNames |-> [t \in 1..MaxTickers |-> NoEntryYet]]]
    /\ sheet = [state |-> "none", cells |-> {}]

ExcelStep ==
    \/ \E outs \in [1..MaxTickers -> PotentialOutcomes \cup PenaltiesOutcomes] :
          /\ batch.done < Len(Sections)
          /\ \A t \in 1..MaxTickers :
                outs[t] \in (IF Sections[batch.done + 1] = "potential"
                             THEN PotentialOutcomes ELSE PenaltiesOutcomes)
          /\ RunNextSection(outs)
    \/ \E update_excel_flag \in BOOLEAN : FinishBatch(update_excel_flag)

(***************************************************************************)
(* Sentences with numbers                                                  *)
(*                                                                         *)
(* The text is a sequence of fragments between full stops.  A fragment is  *)
(* taken by its surrounding white space (pad), by whether it has 20        *)
(* characters or more once stripped (long), and by its number tokens, in   *)
(* order: a percentage "NN%" or a dollar amount "$NN".  The number pattern *)
(* is the percentage pattern or the dollar pattern of the module.          *)
(***************************************************************************)

MaxFragments == 2

\* len(candidate_sentences) < 100
NlpCandidateLimit == 100

Pct(n) == [kind |-> "pct", n |-> n, comma |-> FALSE]
Dollar(n, comma) == [kind |-> "dollar", n |-> n, comma |-> comma]

\* "30%", "4%", "150% ... 4%", "$1,000", "30% ... $7", and no number.
TokenLists ==
    {<<Pct(30)>>, <<Pct(4)>>, <<Pct(150), Pct(4)>>, <<Dollar(1, TRUE)>>,
     <<Pct(30), Dollar(7, FALSE)>>}

Fragments ==
    [pad : BOOLEAN, long : {TRUE}, tokens : TokenLists]
        \cup {[pad |-> FALSE, long |-> FALSE, tokens |-> <<Pct(30)>>],
              [pad |-> TRUE, long |-> TRUE, tokens |-> <<>>]}

NumberPatterns == {"pct", "dollar"}

\* sentence.strip()
Strip(f) == [f EXCEPT !.pad = FALSE]

\* re.findall(number_pattern, sentence): what the group captures, per
\* match.  (\d{1,2}(?:\.\d{1,2})?)\s*% keeps the last two digits of a longer
\* number; the dollar group keeps the thousands separators.
FindAll(number_pattern, f) ==
    LET hits == SelectSeq(f.tokens, LAMBDA t : t.kind = number_pattern)
    IN  [i \in DOMAIN hits |->
            IF number_pattern = "pct"
            THEN [n |-> hits[i].n % 100, comma |-> FALSE]
            ELSE [n |-> hits[i].n, comma |-> hits[i].comma]]

\* float(n) raises ValueError on a string with a comma.
FloatRaises(numbers) == \E i \in DOMAIN numbers : numbers[i].comma

\* [float(n) for n in numbers if self._is_meaningful_number(float(n))]
NumValues(numbers) ==
    LET kept == SelectSeq(numbers, LAMBDA x : IsMeaningfulNumber(x.n))
    IN  [i \in DOMAIN kept |-> kept[i].n]

\* NLPAnalyzer._find_candidate_sentences(text, number_pattern)
FindCandidateSentences(text, number_pattern) ==
    LET stripped == [i \in DOMAIN text |-> Strip(text[i])]
    IN  SelectSeq(stripped,
            LAMBDA f : f.long /\ FindAll(number_pattern, f) # <<>>)

RaisedValueError == [raised |-> TRUE, pairs |-> <<>>]
ReturnedPairs(pairs) == [raised |-> FALSE, pairs |-> pairs]

\* The (sentence, num_values) pairs of the candidates at the indices kept,
\* in order; strips says for which candidates sentence.strip() is appended.
PairsOf(candidate_sentences, number_pattern, kept, strips) ==
    [k \in DOMAIN kept |->
        [sentence |-> IF strips[kept[k]] THEN Strip(candidate_sentences[kept[k]])
                      ELSE candidate_sentences[kept[k]],
         values |-> NumValues(FindAll(number_pattern, candidate_sentences[kept[k]]))]]

\* The candidates that give a pair: numbers matched and some value kept.
WithValues(candidate_sentences, number_pattern) ==
    SelectSeq([i \in DOMAIN candidate_sentences |-> i],
        LAMBDA i : NumValues(FindAll(number_pattern, candidate_sentences[i])) # <<>>)

\* NLPAnalyzer._process_candidates_regex(candidate_sentences, number_pattern)
ProcessCandidatesRegex(candidate_sentences, number_pattern) ==
    IF \E i \in DOMAIN candidate_sentences :
            FloatRaises(FindAll(number_pattern, candidate_sentences[i]))
    THEN RaisedValueError
    ELSE ReturnedPairs(PairsOf(candidate_sentences, number_pattern,
                               WithValues(candidate_sentences, number_pattern),
                               [i \in DOMAIN candidate_sentences |-> FALSE]))

\* _refine_with_nlp in which a sentence the NLP model fails on is dropped.
RefineWithoutFallback(candidate_sentences, number_pattern, failing) ==
    IF \E i \in DOMAIN candidate_sentences :
            FloatRaises(FindAll(number_pattern, candidate_sentences[i]))
    THEN RaisedValueError
    ELSE ReturnedPairs(PairsOf(candidate_sentences, number_pattern,
                               SelectSeq(WithValues(candidate_sentences, number_pattern),
                                         LAMBDA i : i \notin failing),
                               [i \in DOMAIN candidate_sentences |-> TRUE]))

\* NLPAnalyzer._refine_with_nlp(candidate_sentences, number_pattern):
\* failing holds the candidates self.nlp(sentence) raises on.  The try
\* branch appends the stripped sentence, the except branch the sentence as
\* it is; a ValueError of float() inside the try is caught and raised again
\* by the same conversion in the except branch.
RefineWithNlp(candidate_sentences, number_pattern, failing) ==
    IF \E i \in DOMAIN candidate_sentences :
            FloatRaises(FindAll(number_pattern, candidate_sentences[i]))
    THEN RaisedValueError
    ELSE ReturnedPairs(PairsOf(candidate_sentences, number_pattern,
                               WithValues(candidate_sentences, number_pattern),
                               [i \in DOMAIN candidate_sentences |-> i \notin failing]))

\* NLPAnalyzer._extract_sentences_smart(text, number_pattern)
ExtractSentencesSmart(text, number_pattern, nlp_available, failing) ==
    LET candidate_sentences == FindCandidateSentences(text, number_pattern)
    IN  IF candidate_sentences = <<>> THEN ReturnedPairs(<<>>)
        ELSE IF nlp_available /\ Len(candidate_sentences) < NlpCandidateLimit
        THEN RefineWithNlp(candidate_sentences, number_pattern, failing)
        ELSE ProcessCandidatesRegex(candidate_sentences, number_pattern)

NoSmart == [called |-> FALSE, number_pattern |-> "", nlp_available |-> FALSE,
            failing |-> {}, candidates |-> <<>>, returned |-> ReturnedPairs(<<>>)]

\* The text gains a fragment.
AddFragment(f) ==
    /\ ~smart.called
    /\ Len(smartText) < MaxFragments
    /\ smartText' = Append(smartText, f)
    /\ smart' = smart

\* extract_sentences_with_numbers(text, number_pattern)
ExtractSentencesWithNumbers(number_pattern, nlp_available, failing) ==
    /\ ~smart.called
    /\ smartText' = smartText
    /\ smart' = [called |-> TRUE, number_pattern |-> number_pattern,
                 nlp_available |-> nlp_available, failing |-> failing,
                 candidates |-> FindCandidateSentences(smartText, number_pattern),
                 returned |-> ExtractSentencesSmart(smartText, number_pattern,
                                                    nlp_available, failing)]

SmartStart ==
    /\ smartText = <<>>
    /\ smart = NoSmart

SmartStep ==
    \/ \E f \in Fragments : AddFragment(f)
    \/ \E number_pattern \in NumberPatterns, nlp_available \in BOOLEAN,
          failing \in SUBSET (1..MaxFragments) :
          ExtractSentencesWithNumbers(number_pattern, nlp_available, failing)

(***************************************************************************)
(* Market performance                                                      *)
(*                                                                         *)
(* get_stock_performance hands back the closing prices of the stock and of *)
(* the S&P 500 over the period, or None.  Prices are whole numbers and the *)
(* thresholds whole percents; a comparison of performance_diff with a      *)
(* threshold is made on the common denominator.                            *)
(***************************************************************************)

MaxCloses == 2

MARKET_UNDERPERFORM_SEVERE == 50
MARKET_UNDERPERFORM_SIGNIFICANT == 30
MARKET_UNDERPERFORM_MODERATE == 30
MARKET_UNDERPERFORM_MINOR == 20
MARKET_UNDERPERFORM_SLIGHT == 10

StockCloses == {45, 50, 60, 65, 75, 85, 95, 100, 120}
IndexCloses == {100, 110}

\* history['Close'].iloc[0] and .iloc[-1]
StartPrice(history) == history[1]
EndPrice(history) == history[Len(history)]

\* performance_diff <= -threshold, with
\*   performance_diff = (stock_end - stock_start) / stock_start
\*                      - (sp500_end - sp500_start) / sp500_start
\* and the threshold in percent.
DiffAtMost(stock, sp500, threshold) ==
    LET ss == StartPrice(stock)
        se == EndPrice(stock)
        ps == StartPrice(sp500)
        pe == EndPrice(sp500)
    IN  100 * ((se - ss) * ps - (pe - ps) * ss) <= -threshold * ss * ps

\* check_market_loser, lines 819-836: the first rung that holds.
MarketLadder(stock, sp500) ==
    IF DiffAtMost(stock, sp500, MARKET_UNDERPERFORM_SEVERE) THEN -5
    ELSE IF DiffAtMost(stock, sp500, MARKET_UNDERPERFORM_SIGNIFICANT) THEN -4
    ELSE IF DiffAtMost(stock, sp500, MARKET_UNDERPERFORM_MODERATE) THEN -3
    ELSE IF DiffAtMost(stock, sp500, MARKET_UNDERPERFORM_MINOR) THEN -2
    ELSE IF DiffAtMost(stock, sp500, MARKET_UNDERPERFORM_SLIGHT) THEN -1
    ELSE 0

NoMarket == [called |-> FALSE, fetched |-> FALSE, compared |-> FALSE, score |-> 0]

\* The price histories gain a closing price.
AddStockClose(p) ==
    /\ ~market.called
    /\ Len(stockHistory) < MaxCloses
    /\ stockHistory' = Append(stockHistory, p)
    /\ UNCHANGED <<sp500History, market>>

AddIndexClose(p) ==
    /\ ~market.called
    /\ Len(sp500History) < MaxCloses
    /\ sp500History' = Append(sp500History, p)
    /\ UNCHANGED <<stockHistory, market>>

\* check_market_loser(ticker): fetched says whether get_stock_performance
\* handed back both histories; an empty history raises at .iloc[0] and the
\* except branch returns 0.
CheckMarketLoser(fetched) ==
    /\ ~market.called
    /\ UNCHANGED <<stockHistory, sp500History>>
    /\ market' =
          IF ~fetched \/ stockHistory = <<>> \/ sp500History = <<>>
          THEN [called |-> TRUE, fetched |-> fetched, compared |-> FALSE, score |-> 0]
          ELSE [called |-> TRUE, fetched |-> TRUE, compared |-> TRUE,
                score |-> MarketLadder(stockHistory, sp500History)]

MarketStart ==
    /\ stockHistory = <<>>
    /\ sp500History = <<>>
    /\ market = NoMarket

MarketStep ==
    \/ \E p \in StockCloses : AddStockClose(p)
    \/ \E p \in IndexCloses : AddIndexClose(p)
    \/ \E fetched \in BOOLEAN : CheckMarketLoser(fetched)

(***************************************************************************)
(* The specifications                                                      *)
(***************************************************************************)

Start == CacheStart /\ ScoreStart /\ ConcStart /\ ClsStart
         /\ DisruptStart /\ AntitrustStart /\ RecurStart /\ TopDogStart
         /\ AggStart /\ DegradedStart /\ FetchStart /\ ExtractStart
         /\ CacheFileStart /\ LogStart /\ ExcelStart /\ SmartStart
         /\ MarketStart

CacheInit == Start
CacheNext ==
    CacheStep /\ UNCHANGED <<scoreVars, concVars, clsVars, disruptVars, antitrustVars,
                           recurVars, topDogVars, aggVars, degradedVars, fetchVars,
                           extractVars, cacheFileVars, logVars, excelVars,
                           smartVars, marketVars>>
SpecCache == CacheInit /\ [][CacheNext]_vars

Spec == SpecCache

ScoreInit == Start
ScoreNext ==
    ScoreStep /\ UNCHANGED <<cacheVars, concVars, clsVars, disruptVars, antitrustVars,
                           recurVars, topDogVars, aggVars, degradedVars, fetchVars,
                           extractVars, cacheFileVars, logVars, excelVars,
                           smartVars, marketVars>>
SpecScore == ScoreInit /\ [][ScoreNext]_vars

ConcInit == Start
ConcNext ==
    ConcStep /\ UNCHANGED <<cacheVars, scoreVars, clsVars, disruptVars,
                           antitrustVars, recurVars, topDogVars, aggVars,
                           degradedVars, fetchVars, extractVars, cacheFileVars,
                           logVars, excelVars, smartVars, marketVars>>
SpecConc == ConcInit /\ [][ConcNext]_vars

ClsInit == Start
ClsNext ==
    ClsStep /\ UNCHANGED <<cacheVars, scoreVars, concVars, disruptVars,
                           antitrustVars, recurVars, topDogVars, aggVars,
                           degradedVars, fetchVars, extractVars, cacheFileVars,
                           logVars, excelVars, smartVars, marketVars>>
SpecClassify == ClsInit /\ [][ClsNext]_vars

DisruptInit == Start
DisruptNext ==
    DisruptStep /\ UNCHANGED <<cacheVars, scoreVars, concVars, clsVars, antitrustVars,
                           recurVars, topDogVars, aggVars, degradedVars, fetchVars,
                           extractVars, cacheFileVars, logVars, excelVars,
                           smartVars, marketVars>>
SpecDisrupt == DisruptInit /\ [][DisruptNext]_vars

AntitrustInit == Start
AntitrustNext ==
    AntitrustStep /\ UNCHANGED <<cacheVars, scoreVars, concVars, clsVars, disruptVars,
                           recurVars, topDogVars, aggVars, degradedVars, fetchVars,
                           extractVars, cacheFileVars, logVars, excelVars,
                           smartVars, marketVars>>
SpecAntitrust == AntitrustInit /\ [][AntitrustNext]_vars

RecurInit == Start
RecurNext ==
    RecurStep /\ UNCHANGED <<cacheVars, scoreVars, concVars, clsVars, disruptVars,
                           antitrustVars, topDogVars, aggVars, degradedVars,
                           fetchVars, extractVars, cacheFileVars, logVars,
                           excelVars, smartVars, marketVars>>
SpecRecur == RecurInit /\ [][RecurNext]_vars

TopDogInit == Start
TopDogNext ==
    TopDogStep /\ UNCHANGED <<cacheVars, scoreVars, concVars, clsVars, disruptVars,
                           antitrustVars, recurVars, aggVars, degradedVars,
                           fetchVars, extractVars, cacheFileVars, logVars,
                           excelVars, smartVars, marketVars>>
SpecTopDog == TopDogInit /\ [][TopDogNext]_vars

AggInit == Start
AggNext ==
    AggStep /\ UNCHANGED <<cacheVars, scoreVars, concVars, clsVars, disruptVars,
                           antitrustVars, recurVars, topDogVars, degradedVars,
                           fetchVars, extractVars, cacheFileVars, logVars,
                           excelVars, smartVars, marketVars>>
SpecAggregate == AggInit /\ [][AggNext]_vars

DegradedInit == Start
DegradedNext ==
    DegradedStep /\ UNCHANGED <<cacheVars, scoreVars, concVars, clsVars, disruptVars,
                           antitrustVars, recurVars, topDogVars, aggVars, fetchVars,
                           extractVars, cacheFileVars, logVars, excelVars,
                           smartVars, marketVars>>
SpecDegraded == DegradedInit /\ [][DegradedNext]_vars

FetchInit == Start
FetchNext ==
    FetchStep /\ UNCHANGED <<cacheVars, scoreVars, concVars, clsVars, disruptVars,
                           antitrustVars, recurVars, topDogVars, aggVars,
                           degradedVars, extractVars, cacheFileVars, logVars,
                           excelVars, smartVars, marketVars>>
SpecFetch == FetchInit /\ [][FetchNext]_vars

ExtractInit == Start
ExtractNext ==
    ExtractStep /\ UNCHANGED <<cacheVars, scoreVars, concVars, clsVars, disruptVars,
                           antitrustVars, recurVars, topDogVars, aggVars,
                           degradedVars, fetchVars, cacheFileVars, logVars,
                           excelVars, smartVars, marketVars>>
SpecExtract == ExtractInit /\ [][ExtractNext]_vars

CacheFileInit == Start
CacheFileNext ==
    CacheFileStep /\ UNCHANGED <<cacheVars, scoreVars, concVars, clsVars, disruptVars,
                           antitrustVars, recurVars, topDogVars, aggVars,
                           degradedVars, fetchVars, extractVars, logVars, excelVars,
                           smartVars, marketVars>>
SpecCacheFile == CacheFileInit /\ [][CacheFileNext]_vars

LogInit == Start
LogNext ==
    LogStep /\ UNCHANGED <<cacheVars, scoreVars, concVars, clsVars, disruptVars,
                           antitrustVars, recurVars, topDogVars, aggVars,
                           degradedVars, fetchVars, extractVars, cacheFileVars,
                           excelVars, smartVars, marketVars>>
SpecLog == LogInit /\ [][LogNext]_vars

ExcelInit == Start
ExcelNext ==
    ExcelStep /\ UNCHANGED <<cacheVars, scoreVars, concVars, clsVars, disruptVars,
                           antitrustVars, recurVars, topDogVars, aggVars,
                           degradedVars, fetchVars, extractVars, cacheFileVars,
                           logVars, smartVars, marketVars>>
SpecExcel == ExcelInit /\ [][ExcelNext]_vars

SmartInit == Start
SmartNext ==
    SmartStep /\ UNCHANGED <<cacheVars, scoreVars, concVars, clsVars, disruptVars,
                           antitrustVars, recurVars, topDogVars, aggVars,
                           degradedVars, fetchVars, extractVars, cacheFileVars,
                           logVars, excelVars, marketVars>>
SpecSmart == SmartInit /\ [][SmartNext]_vars

MarketInit == Start
MarketNext ==
    MarketStep /\ UNCHANGED <<cacheVars, scoreVars, concVars, clsVars, disruptVars,
                           antitrustVars, recurVars, topDogVars, aggVars,
                           degradedVars, fetchVars, extractVars, cacheFileVars,
                           logVars, excelVars, smartVars>>
SpecMarket == MarketInit /\ [][MarketNext]_vars

(***************************************************************************)
(* The claims                                                              *)
(***************************************************************************)

\* C1: a call never returns a cached payload whose stored timestamp is
\* CACHE_EXPIRY_DAYS or more older than the current time: an entry that old is
\* treated as absent, the fetch function is invoked, and whatever the call
\* returns carries a timestamp younger than the TTL.
C1_NeverReturnsStale ==
    [][CallStep =>
        LET e     == cache[call'.key]
            stale == e # NoEntry /\ now - e.timestamp >= CACHE_EXPIRY_DAYS
        IN  /\ stale => call'.fetched /\ call'.entry = "expired"
            /\ call'.data # None => now - call'.timestamp < CACHE_EXPIRY_DAYS
            /\ ~call'.fetched => now - e.timestamp < CACHE_EXPIRY_DAYS]_vars

\* C1 witness: a call found an entry of the TTL's age or older and fetched anew.
C1_Witness ==
    /\ call.entry = "expired"
    /\ call.fetched
    /\ call.data \in Filings
    /\ call.timestamp = call.at

C4_OnlyActualFindingsScore ==
    (conc.returned = "score" /\ conc.score # 0) =>
        LET s == filing[conc.findings[1].src]
        IN  /\ IsActualStatement(s)
            /\ Terms(s) \cap CustomerTerms # {}
            /\ Terms(s) \cap RevenueTerms # {}

\* C5 (as claimed): a sentence that matches a percentage pattern and carries a
\* geographic, procedural, distribution-channel or equity-compensation
\* exclusion phrase produces no finding, on whichever path.
C5_ExcludedSentenceNoFinding ==
    conc.returned = "score" =>
        \A k \in DOMAIN conc.findings :
            filing[conc.findings[k].src].mod \notin ExclusionModifiers

\* C6 (as claimed): with NLP available the strategies run in the order
\* NLP-assisted, enhanced patterns, basic regex fallback, and 'no findings' is
\* answered only after the basic regex fallback has run too.
C6_BasicFallbackRuns ==
    (conc.returned = "score" /\ conc.nlp /\ conc.findings = <<>>) =>
        conc.stages = <<"nlp", "patterns", "regex">>

\* C7 (as claimed): more singular than plural customer phrases give 'single';
\* with equal counts, or no customer phrase at all, the percentage decides:
\* 50 and above 'single', 20 up to 50 'few', below 20 'multiple'.
C7_TieBreakThresholds ==
    (cls.called /\ cls.type # None) =>
        LET s   == cls.sentence
            pct == cls.sentence.pct
        IN  /\ SingleMatches(s) > MultipleMatches(s) => cls.type = "single"
            /\ SingleMatches(s) = MultipleMatches(s) =>
                  cls.type = IF pct >= 50 THEN "single"
                             ELSE IF pct >= 20 THEN "few"
                             ELSE "multiple"

\* C8 (as claimed): the score is -5 when the top two findings together exceed
\* 70% and at least -3 in severity when the top three together exceed 50%.
C8_TopTotalsScored ==
    scored =>
        /\ (Len(findings) >= 2 /\ SumEffective(findings, 2) > 7000)
              => concScore = -5
        /\ (Len(findings) >= 3 /\ SumEffective(findings, 3) > 5000)
              => concScore \in {-5, -3}

\* C9 (as claimed): a pattern match whose context has materiality language is
\* tagged 'critical' when its pattern matched more than once or the context
\* has urgency language and 'significant' otherwise, a match with requirement
\* words and no materiality language is tagged 'minor', and the score follows
\* the ladder -5 / -3 / -1 / 0 over the tags.
C9_MaterialityAloneTagsSevere ==
    disruption.returned = "score" =>
        /\ \A i \in RiskSection(riskText, riskHeader) :
              LET p == riskText[i]
                  n == Cardinality({j \in RiskSection(riskText, riskHeader) :
                                        riskText[j].pattern = p.pattern})
              IN  /\ HasMateriality(p) =>
                        disruption.tags[i] = IF n > 1 \/ HasUrgency(p)
                                             THEN "critical" ELSE "significant"
                  /\ (HasContext(p) /\ ~HasMateriality(p)) =>
                        disruption.tags[i] = "minor"
        /\ LET critical    == {i \in DOMAIN disruption.tags : disruption.tags[i] = "critical"}
               significant == {i \in DOMAIN disruption.tags : disruption.tags[i] = "significant"}
               minor       == {i \in DOMAIN disruption.tags : disruption.tags[i] = "minor"}
           IN  disruption.score =
                   IF critical # {} \/ Cardinality(significant) >= 2 THEN -5
                   ELSE IF Cardinality(significant) = 1 THEN -3
                   ELSE IF minor # {} THEN -1
                   ELSE 0

\* C9 (amended): a pattern match whose context has both a contextual
\* requirement word and materiality language is tagged 'critical' when its
\* pattern matched more than once or the context has urgency language and
\* 'significant' otherwise; a match whose context has exactly one of the two
\* is tagged 'minor'; a match with neither is not recorded.  The score is -5
\* if any finding is 'critical' or at least two are 'significant', -3 if
\* exactly one is 'significant', -1 if only 'minor' findings exist, else 0.
C9_TagsAndScore ==
    disruption.returned = "score" =>
        /\ \A i \in RiskSection(riskText, riskHeader) :
              LET p == riskText[i]
                  n == Cardinality({j \in RiskSection(riskText, riskHeader) :
                                        riskText[j].pattern = p.pattern})
              IN  /\ (HasContext(p) /\ HasMateriality(p)) =>
                        disruption.tags[i] = IF n > 1 \/ HasUrgency(p)
                                             THEN "critical" ELSE "significant"
                  /\ (HasContext(p) /\ ~HasMateriality(p)) =>
                        disruption.tags[i] = "minor"
                  /\ (~HasContext(p) /\ HasMateriality(p)) =>
                        disruption.tags[i] = "minor"
                  /\ (~HasContext(p) /\ ~HasMateriality(p)) =>
                        disruption.tags[i] = "none"
        /\ LET critical    == {i \in DOMAIN disruption.tags : disruption.tags[i] = "critical"}
               significant == {i \in DOMAIN disruption.tags : disruption.tags[i] = "significant"}
               minor       == {i \in DOMAIN disruption.tags : disruption.tags[i] = "minor"}
           IN  disruption.score =
                   IF critical # {} \/ Cardinality(significant) >= 2 THEN -5
                   ELSE IF Cardinality(significant) = 1 THEN -3
                   ELSE IF minor # {} THEN -1
                   ELSE 0

\* A filing whose only match has materiality language and no requirement
\* word: the match is tagged 'minor' and the score is -1.
C9_Witness ==
    /\ disruption.returned = "score"
    /\ riskText = <<[pattern |-> "declining demand", words |-> {"material"}]>>
    /\ disruption.tags = <<"minor">>
    /\ disruption.score = -1

\* C10 (as claimed): for a ticker without a keyword override and a filing at
\* hand, the answer is -3 exactly when some paragraph of the filing holds a
\* section marker, matches an antitrust pattern and matches no negative
\* pattern, and 0 in every other case.
C10_ParagraphRule ==
    (antitrust.called /\ antitrust.fetched
        /\ LowerTicker(antitrust.ticker) \notin OverrideTickers) =>
        LET Concern(par) ==
                /\ \E ph \in par.phrases : PhraseTerms(ph) \cap SectionMarkers # {}
                /\ \E ph \in par.phrases : MatchesAntitrustPattern(ph)
                /\ ~\E ph \in par.phrases : MatchesNegativePattern(ph)
        IN  antitrust.score =
                IF \E i \in DOMAIN antiText : Concern(antiText[i]) THEN -3 ELSE 0

\* C11 (as claimed): the score is the ladder >=80 -> 5, >=60 -> 4, >=40 -> 3,
\* >=20 -> 2, >=5 -> 1, else 0 applied to the explicit percentage when one was
\* extracted, otherwise to the subscription-line percentage of the financial
\* statements; with no percentage it is 2 whenever a subscription model is
\* detected and 0 otherwise.
C11_PercentageLadderThenQualitative ==
    (recurring.called /\ recurring.fetched) =>
        LET Ladder(p) == IF p >= 80 THEN 5 ELSE IF p >= 60 THEN 4
                         ELSE IF p >= 40 THEN 3 ELSE IF p >= 20 THEN 2
                         ELSE IF p >= 5 THEN 1 ELSE 0
        IN  recurring.score =
                IF rrText.explicit # <<>> THEN Ladder(rrText.explicit[1])
                ELSE IF rrText.financial.hasPct THEN Ladder(rrText.financial.pct)
                ELSE IF rrText.subscription THEN 2
                ELSE 0

\* C12 (as claimed): the score is min(max_possible, round(accumulated)) with
\* max_possible 1 without an emerging-industry hit and 3 with one, and
\* accumulated the sum of the market-leader, first-mover and disruptor
\* bonuses alone.
C12_ThreeBonuses ==
    (topdog.called /\ topdog.analysed) =>
        LET m   == dogMatches
            acc == (IF m.MARKET_LEADER >= 3 /\ m.EMERGING > 0 THEN 2
                    ELSE IF m.MARKET_LEADER >= 1 THEN 1 ELSE 0)
                   + (IF m.FIRST_MOVER >= 5 THEN 2 ELSE IF m.FIRST_MOVER >= 2 THEN 1 ELSE 0)
                   + (IF m.DISRUPTOR >= 5 THEN 2 ELSE IF m.DISRUPTOR >= 2 THEN 1 ELSE 0)
            rnd == IF acc \in {1, 5} THEN (acc - 1) \div 2 ELSE (acc + 1) \div 2
            cap == IF m.EMERGING > 0 THEN 3 ELSE 1
        IN  topdog.score = IF rnd < cap THEN rnd ELSE cap

\* C12 (amended): the score is min(max_possible, round(accumulated)), round
\* taking a half to the even neighbour, max_possible 1 without an
\* emerging-industry hit and 3 with one, and accumulated the sum of four
\* bonuses: emerging-industry presence (1 from ten mentions, 0.5 from five),
\* market leader (1 from three indicators together with an emerging-industry
\* hit, else 0.5 from one), first mover and disruptor (1 from five, 0.5 from
\* two).  The score is never above 1 without a hit and never above 3.
C12_TopDogScore ==
    (topdog.called /\ topdog.analysed) =>
        LET m   == dogMatches
            acc == (IF m.EMERGING >= 10 THEN 2 ELSE IF m.EMERGING >= 5 THEN 1 ELSE 0)
                   + (IF m.MARKET_LEADER >= 3 /\ m.EMERGING > 0 THEN 2
                      ELSE IF m.MARKET_LEADER >= 1 THEN 1 ELSE 0)
                   + (IF m.FIRST_MOVER >= 5 THEN 2 ELSE IF m.FIRST_MOVER >= 2 THEN 1 ELSE 0)
                   + (IF m.DISRUPTOR >= 5 THEN 2 ELSE IF m.DISRUPTOR >= 2 THEN 1 ELSE 0)
            rnd == IF acc \in {1, 5} THEN (acc - 1) \div 2 ELSE (acc + 1) \div 2
            cap == IF m.EMERGING > 0 THEN 3 ELSE 1
        IN  /\ topdog.score = (IF rnd < cap THEN rnd ELSE cap)
            /\ m.EMERGING = 0 => topdog.score <= 1
            /\ topdog.score <= 3

\* Ten emerging-industry mentions and nothing else: the presence bonus alone
\* gives the score 1.
C12_Witness ==
    /\ topdog.called /\ topdog.analysed
    /\ dogMatches = [EMERGING |-> 10, MARKET_LEADER |-> 0, FIRST_MOVER |-> 0, DISRUPTOR |-> 0]
    /\ topdog.score = 1


\* The penalties result of the example: two metrics of -3 and their roll-up.
GauntletExample ==
    {<<"Customer Concentration", Num(-3)>>, <<"Antitrust Concerns", Num(-3)>>,
     <<"Gauntlet Score", Num(-6)>>}

\* The numeric sub-scores a segment function returned for a report, the
\* roll-up of the penalties segment left out.
NumericSubScores(r, s) ==
    IF r.outcomes[s].kind # "dict" THEN {}
    ELSE {e \in r.outcomes[s].scores :
             e[2].kind = "num" /\ ~(s = "penalties" /\ e[1] = "Gauntlet Score")}

\* C13: the total of a ticker is the sum of the numeric sub-scores of all
\* its segments without the 'Gauntlet Score' of the penalties segment, in
\* calculate_total_score and in _score_one_ticker alike; the penalties
\* result {-3, -3, Gauntlet Score -6} contributes exactly -6.
C13_GauntletExcluded ==
    \A k \in DOMAIN reports :
        LET r == reports[k]
        IN  /\ r.total = SumScores(NumericSubScores(r, "potential"))
                         + SumScores(NumericSubScores(r, "penalties"))
            /\ r.outcomes["penalties"] = Returns(GauntletExample)
                  => r.section_scores["penalties"] = -6

\* C13 witness: _score_one_ticker has totalled a ticker whose penalties
\* result is the example, next to a potential result of 2.
C13_Witness ==
    /\ engine = "entrypoints"
    /\ \E k \in DOMAIN reports :
          /\ reports[k].outcomes["penalties"] = Returns(GauntletExample)
          /\ reports[k].outcomes["potential"].kind = "dict"
          /\ reports[k].section_scores["penalties"] = -6
          /\ reports[k].total = -4

\* A sub-score of "MANUAL" is among what the segment function returned.
HasManual(outcomes) ==
    \E s \in {"potential", "penalties"} :
        \E e \in outcomes[s].scores : e[2].kind = "manual"

RaisedIsNeutral(r, s) ==
    /\ r.section_scores[s] = 0
    /\ engine = "main" => r.results[s].present /\ r.results[s].isNone

\* A segment of the report was processed: its returned scores were summed
\* and, in main.py, kept.
StillProcessed(r, s) ==
    /\ r.section_scores[s] = SumScores(NumericSubScores(r, s))
    /\ (engine = "main" /\ r.outcomes[s].kind = "dict" /\ r.outcomes[s].scores # {})
          => r.results[s].scores = r.outcomes[s].scores

\* C15: an exception of a segment function is caught for that segment and
\* ticker, a neutral result is recorded for it (None in run_section, 0.0 in
\* _score_one_ticker), the other segments of the ticker are processed, the
\* ticker is reported and the loop goes on to the next ticker.
C15_RaiseIsCaught ==
    /\ [](\A k \in DOMAIN reports :
            \A s \in {"potential", "penalties"} :
                reports[k].outcomes[s].kind = "raise" =>
                    /\ RaisedIsNeutral(reports[k], s)
                    /\ \A o \in {"potential", "penalties"} \ {s} :
                          StillProcessed(reports[k], o))
    /\ [][(/\ \E s \in {"potential", "penalties"} : lastOutcomes'[s].kind = "raise"
           /\ ~HasManual(lastOutcomes'))
          => /\ reports' = Append(reports, reports'[Len(reports')])
             /\ reports'[Len(reports')].outcomes = lastOutcomes'
             /\ ~aborted']_aggVars

\* C15 witness: the potential function raised for the first ticker, its
\* penalties were still summed, and the second ticker was reported after it.
C15_Witness ==
    /\ Len(reports) = 2
    /\ engine = "main"
    /\ reports[1].outcomes["potential"].kind = "raise"
    /\ reports[1].results["potential"].isNone
    /\ reports[1].section_scores["potential"] = 0
    /\ reports[1].section_scores["penalties"] = -6
    /\ reports[2].outcomes["potential"].kind = "dict"
    /\ reports[2].total = 2


\* The index in runs of the run of section s for the k-th finished ticker.
RunOf(k, s) ==
    CHOOSE i \in 3 * (k - 1) + 1 .. 3 * k : runs[i].section = s

\* Every finished ticker is in allResults with an entry for each section,
\* the scores of each entry being the ones its run produced.
TickerAppears ==
    /\ Len(allResults) = Len(runs) \div 3
    /\ \A k \in DOMAIN allResults :
          \A s \in {"potential", "specific_factors", "penalties"} :
              /\ allResults[k][s].present
              /\ ~allResults[k][s].isNone
              /\ allResults[k][s].scores = runs[RunOf(k, s)].entry.scores

\* C16: when get_latest_10k hands back None, customer concentration,
\* industry disruption, antitrust concerns, top dog and recurring revenue
\* are all 0, and the ticker appears in the output with those values.
C16_MissingFilingAllNeutral ==
    /\ \A i \in DOMAIN runs :
          ~runs[i].fetched =>
              \A e \in runs[i].entry.scores : e[2] = Num(0)
    /\ TickerAppears

\* C16 as the code has it: without the filing, the three penalties and top
\* dog are 0, recurring revenue is 3 when the business summary holds at
\* least three strong keywords and 0 otherwise, and the ticker appears in
\* the output with those values.
C16_MissingFilingNeutralButSummary ==
    /\ \A i \in DOMAIN runs :
          ~runs[i].fetched =>
              /\ runs[i].section = "potential" =>
                    runs[i].entry.scores = {<<"Top Dog Score", Num(0)>>}
              /\ runs[i].section = "penalties" =>
                    runs[i].entry.scores =
                        {<<"Customer Concentration", Num(0)>>,
                         <<"Industry Disruption", Num(0)>>,
                         <<"Antitrust Concerns", Num(0)>>}
              /\ runs[i].section = "specific_factors" =>
                    runs[i].entry.scores =
                        {<<"Recurring Revenue Score",
                           Num(IF runs[i].strong_count >= 3 THEN 3 ELSE 0)>>}
    /\ TickerAppears

\* C16 witness: a ticker finished without a filing in any of its three
\* segments, its summary holding three strong keywords; it is in the output
\* with the zero penalties and a recurring revenue score of 3.
C16_Witness ==
    /\ Len(allResults) >= 1
    /\ \A i \in 1..3 : ~runs[i].fetched
    /\ runs[2].strong_count = 3
    /\ allResults[1]["penalties"].present
    /\ <<"Customer Concentration", Num(0)>> \in allResults[1]["penalties"].scores
    /\ <<"Recurring Revenue Score", Num(3)>> \in allResults[1]["specific_factors"].scores


\* C17: whatever the input, a returned score lies in the range of its
\* metric: customer concentration in {-5, -3, 0}, industry disruption in
\* {-5, -3, -1, 0}, antitrust in {-3, 0}, recurring revenue in 0..5 and top
\* dog in 0..3.
C17_ScoresInRange ==
    /\ conc.returned # "nothing" =>
          conc.returned = "score" /\ conc.score \in {-5, -3, 0}
    /\ disruption.returned # "nothing" =>
          disruption.returned = "score" /\ disruption.score \in {-5, -3, -1, 0}
    /\ antitrust.called => antitrust.score \in {-3, 0}
    /\ recurring.called => recurring.score \in 0..5
    /\ topdog.called => topdog.score \in 0..3


\* The requests of one call of fetch_10k_filing for one of its steps.
RequestsOf(n, step) ==
    {i \in DOMAIN httpLog :
        /\ httpLog[i].kind = "get"
        /\ httpLog[i].call = n
        /\ httpLog[i].step = step}

\* C18: there is no retry: in one call of fetch_10k_filing the CIK lookup,
\* the submissions index and the filing document are each requested at
\* most once, and the first response that is not 200 ends the call with
\* None without a further request.
C18_NoRetry ==
    \A n \in 1..fetchCount :
        \A step \in {"cik", "submissions", "document"} :
            Cardinality(RequestsOf(n, step)) <= 1

\* C19: between any two consecutive requests of fetch_10k_filing, in one
\* call or across calls, the delay elapses: no request follows a request
\* without a sleep in between.
C19_RequestsSpaced ==
    \A i \in DOMAIN httpLog :
        (i > 1 /\ httpLog[i].kind = "get") => httpLog[i - 1].kind = "sleep"

\* The index of the call lists a filing of the form.
Lists(form) == \E i \in DOMAIN submissions.forms : submissions.forms[i] = form

\* Position i is the first one of the form in the index of the call.
FirstListed(i, form) ==
    /\ i \in DOMAIN submissions.forms
    /\ submissions.forms[i] = form
    /\ \A j \in 1..(i - 1) : submissions.forms[j] # form

\* C20: once the submissions index has arrived, the first-listed 10-K is
\* selected whenever the index lists a 10-K, the first-listed 20-F only when
\* it lists no 10-K, and with neither the call returns None without asking
\* for a document; a filing that is returned is the selected one.
C20_TenKPreferred ==
    submissions.received =>
        /\ Lists("10-K") => selected.found /\ selected.form_type = "10-K"
                            /\ FirstListed(selected.index, "10-K")
        /\ (~Lists("10-K") /\ Lists("20-F")) =>
              selected.found /\ selected.form_type = "20-F"
              /\ FirstListed(selected.index, "20-F")
        /\ (~Lists("10-K") /\ ~Lists("20-F")) =>
              /\ filingResult.done /\ filingResult.isNone
              /\ RequestsOf(fetchCount, "document") = {}
        /\ (filingResult.done /\ ~filingResult.isNone) =>
              /\ filingResult.form_type = selected.form_type
              /\ filingResult.index = selected.index

\* C20 witness: the index lists a 20-F, an 8-K and then a 10-K, and the
\* call has returned the 10-K of the third position.
C20_Witness ==
    /\ submissions.received
    /\ submissions.forms = <<"20-F", "8-K", "10-K">>
    /\ filingResult.done
    /\ ~filingResult.isNone
    /\ filingResult.form_type = "10-K"
    /\ filingResult.index = 3


\* The offsets at which some pattern of the list matches the text.
AnyMatch(text, patterns) ==
    UNION {MatchOffsets(text, patterns[k], 0) : k \in DOMAIN patterns}

\* C21: extract_10k_section returns the empty string only when no header
\* pattern of the section matches the text; when one matches anywhere,
\* position 0 included, the result starts at the first recognized header and
\* ends at the next recognized section boundary (the end of the text when
\* there is none).
C21_EmptyOnlyWithoutHeader ==
    (extracted.called /\ extracted.known) =>
        LET headers == AnyMatch(secText, HeaderPatterns)
            after == {o \in AnyMatch(secText, EndPatterns) : o > extracted.start}
        IN  /\ extracted.empty <=> headers = {}
            /\ ~extracted.empty =>
                  /\ extracted.start = Least(headers)
                  /\ extracted.end = IF after # {} THEN Least(after)
                                     ELSE DocLength(secText)


\* Process p takes its load step, for the key, in this step.
Loads(p, key) ==
    procs[p].pc = "idle" /\ procs'[p].pc # "idle" /\ procs'[p].key = key

\* The fetch of process p returns in this step.
FetchReturned(p) == procs[p].pc = "fetch" /\ procs'[p].pc = "done"

\* C22: a cache file that holds invalid JSON is taken for an empty cache:
\* get_cached_data does not fail on it but calls the fetch function and
\* returns what it fetched, writing it back with the current timestamp when
\* the fetch succeeded.
C22_InvalidJsonIsEmptyCache ==
    /\ [](\A p \in 1..MaxProcs :
            (procs[p].pc # "idle" /\ procs[p].file = "invalid") =>
                /\ procs[p].loaded = EmptyData
                /\ procs[p].pc = "done" => procs[p].fetched
                /\ (procs[p].pc = "done" /\ ~procs[p].isNone) => procs[p].data = "new")
    /\ [][\A p \in 1..MaxProcs :
            (FetchReturned(p) /\ procs[p].file = "invalid" /\ ~procs'[p].isNone) =>
                /\ cacheFile'.kind = "object"
                /\ cacheFile'.data[procs[p].key] = WellFormed(Today, "new")]_cacheFileVars

\* C22 witness: a call found invalid JSON, fetched, returned the new data,
\* and the file is an object again that holds the entry.
C22_Witness ==
    \E p \in 1..MaxProcs :
        /\ procs[p].pc = "done"
        /\ procs[p].file = "invalid"
        /\ procs[p].fetched
        /\ procs[p].data = "new"
        /\ cacheFile.kind = "object"
        /\ cacheFile.data[procs[p].key] = WellFormed(Today, "new")

\* C23: get_cached_data rewrites the whole file from what it loaded before
\* the fetch, without a lock, so that two concurrent calls for different
\* keys can lose an update: both fetches succeed and the file ends with only
\* one of the two new entries (the witness).
C23_WholeFileRewrite ==
    [][\A p \in 1..MaxProcs :
          (FetchReturned(p) /\ ~procs'[p].isNone) =>
              /\ cacheFile'.kind = "object"
              /\ cacheFile'.data =
                    [procs[p].loaded EXCEPT ![procs[p].key] = WellFormed(Today, "new")]]_cacheFileVars

\* C23 witness: two calls for different keys on a missing file have both
\* fetched and returned new data, and the file holds one entry only.
C23_LostUpdate ==
    /\ procs[1].pc = "done" /\ procs[2].pc = "done"
    /\ procs[1].key = "aaa" /\ procs[2].key = "bbb"
    /\ procs[1].file = "missing" /\ procs[2].file = "missing"
    /\ procs[1].fetched /\ ~procs[1].isNone
    /\ procs[2].fetched /\ ~procs[2].isNone
    /\ cacheFile.data["aaa"] = WellFormed(Today, "new")
    /\ cacheFile.data["bbb"] = Absent

C24_OneScoreRecordPerCall ==
    \A i \in DOMAIN scoreCalls :
        /\ Len(scoreCalls[i].records) = 1
        /\ scoreCalls[i].records[1].metric = scoreCalls[i].metric
        /\ scoreCalls[i].records[1].score = scoreCalls[i].returned


\* C25 as stated: every customer-concentration finding with a percentage of
\* 50 or more is typed 'single'.
C25_HalfOrMoreIsSingle ==
    \A i \in DOMAIN conc.findings :
        conc.findings[i].value >= 50 => conc.findings[i].finding_type = "single"

\* C25, amended: classify_customer_type types every percentage of 50 or
\* more 'single', so the findings of the NLP stage with such a percentage
\* are 'single'; the regex analysis types its findings 'single' or
\* 'multiple' whatever the percentage, never 'few'.  Every finding typed
\* 'few' has a value and an effective percentage below 50, none satisfies a
\* few-customer rung, and a score other than 0 comes from a top finding
\* typed 'single'.
C25_FewBelowFifty ==
    /\ \A s \in Sentences :
          LET t == ClassifyCustomerType(s, s.pct)
          IN  /\ (t # None /\ s.pct >= 50) => t = "single"
              /\ t = "few" => s.pct < 50
    /\ \A i \in DOMAIN conc.findings :
          LET f == conc.findings[i]
          IN  /\ f.finding_type = "few" => (f.value < 50 /\ f.value * f.confidence < 50 * 100)
              /\ (f.value >= 50 /\ conc.stages = <<"nlp">>) => f.finding_type = "single"
              /\ (f.value >= 50 /\ conc.stages = <<"analysis">>) =>
                    f.finding_type \in {"single", "multiple"}
              /\ conc.stages = <<"analysis">> => f.finding_type # "few"
    /\ (conc.returned = "score" /\ conc.score # 0) =>
          conc.findings[1].finding_type = "single"

\* C25 witness: the NLP stage kept a finding typed 'few' and one of 60%
\* typed 'single', which is on top and gives the score.
C25_Witness ==
    /\ conc.returned = "score"
    /\ conc.stages = <<"nlp">>
    /\ conc.score = -5
    /\ conc.findings[1].value = 60
    /\ conc.findings[1].finding_type = "single"
    /\ \E i \in DOMAIN conc.findings :
          conc.findings[i].finding_type = "few" /\ conc.findings[i].value = 30


\* C27: check_antitrust_concerns tests the filing paragraph by paragraph,
\* and text in one paragraph never changes the outcome for another: the
\* answer for the filing is -3 exactly when some paragraph, taken on its
\* own, gives -3.
C27_ParagraphsIndependent ==
    (antitrust.called /\ antitrust.fetched) =>
        antitrust.score =
            IF \E i \in DOMAIN antiText :
                    AntitrustScore(antitrust.ticker, <<antiText[i]>>) = -3
            THEN -3 ELSE 0


\* C28: update_excel writes the scores of a ticker into the same column for
\* every section, column 4 + the ticker's position in the processed ticker
\* list (counted from 0), also when a segment function returned None or an
\* empty dict for another ticker in some section.
C28_ColumnByPosition ==
    sheet.state = "saved" =>
        \A c \in sheet.cells : c.column = FirstColumn + (c.ticker - 1)


\* C29: with NLP available and fewer than 100 candidates, _refine_with_nlp
\* returns exactly the list of (sentence, values) pairs that
\* _process_candidates_regex returns for the same candidates and number
\* pattern (and raises where it raises).
C29_RefineEqualsRegex ==
    (smart.called /\ smart.nlp_available /\ Len(smart.candidates) < NlpCandidateLimit) =>
        smart.returned = ProcessCandidatesRegex(smart.candidates, smart.number_pattern)

\* C29 witness: the text has a padded fragment, the NLP model failed on a
\* candidate, and the pairs returned hold that candidate too.
C29_Witness ==
    /\ smart.called /\ smart.nlp_available
    /\ \E i \in DOMAIN smartText : smartText[i].pad
    /\ Len(smart.candidates) = 2
    /\ smart.failing = {1}
    /\ ~smart.returned.raised
    /\ Len(smart.returned.pairs) = 2
    /\ smart.returned.pairs[1].values = <<50>>


\* C30: check_market_loser returns -5 when the stock underperforms the
\* S&P 500 by more than 50%, -4 for 40-50%, -3 for 30-40%, -2 for 20-30%,
\* -1 for 10-20%, and 0 for less than 10% of underperformance or for
\* outperformance.  (The bands are taken without their end points.)
C30_MarketLoserBands ==
    market.compared =>
        LET d(t) == 100 * ((EndPrice(stockHistory) - StartPrice(stockHistory)) * StartPrice(sp500History)
                            - (EndPrice(sp500History) - StartPrice(sp500History)) * StartPrice(stockHistory))
                    + t * StartPrice(stockHistory) * StartPrice(sp500History)
        IN  /\ d(50) < 0 => market.score = -5
            /\ (d(40) < 0 /\ d(50) > 0) => market.score = -4
            /\ (d(30) < 0 /\ d(40) > 0) => market.score = -3
            /\ (d(20) < 0 /\ d(30) > 0) => market.score = -2
            /\ (d(10) < 0 /\ d(20) > 0) => market.score = -1
            /\ d(10) > 0 => market.score = 0
====
